---- MODULE Spec2Model ----
(***************************************************************************)
(* Flight physics and stability engine of the rocket designer.             *)
(*                                                                         *)
(* Part 1: PhysicsEngine.simulateFlightStep / runFullSimulation            *)
(*         (PhysicsEngine.ts, kept as src/unnamed/part_003) and the        *)
(*         RocketPhysics record that RocketDesigner.toggleSimulation       *)
(*         derives from the component list.                                *)
(* Part 2: StabilityAnalysis.calculateStabilityMetrics, and the designer   *)
(*         around it: RocketDesigner's handlers, RocketCanvas, the tabs,   *)
(*         the effect of StabilityAnalysis and the live telemetry of       *)
(*         SimulationPanel.                                                *)
(*                                                                         *)
(* Numbers.  The program computes in IEEE doubles.  The flight model       *)
(* computes in fixed point, every quantity an integer count of a unit:     *)
(*     time      ms          altitude  um (1e-6 m)    velocity  um/s       *)
(*     accel.    mm/s^2      mass      ug (1e-9 kg)   force     uN         *)
(*     density   0.01 g/m^3  pressure  Pa             temperature mK       *)
(*     Cd        1/100       area      mm^2                                *)
(* Quotients round toward zero at the unit.  MulDiv(a, b, c) is a*b/c      *)
(* without an intermediate beyond 32 bits, for divisors up to 46340; the   *)
(* formulas divide in stages where their divisor is larger.  The model     *)
(* covers rockets below 463 g, 2 km and 1400 m/s.                          *)
(* Sample times are exact multiples of timeStep, with the sign of the      *)
(* rounding error the program's repeated addition leaves (TimeRounding).   *)
(* The stability model and the live telemetry compute in the doubles       *)
(* themselves (records [cls, sign, mant, exp]), every operation rounded as *)
(* the program rounds it.                                                  *)
(***************************************************************************)
EXTENDS Integers, Naturals, Sequences, FiniteSets, TLC

VARIABLES
  pc,             \* position of the runFullSimulation call: idle, loop, done
  rocketPhysics,  \* argument of runFullSimulation
  motorData,      \* argument of runFullSimulation (NoMotor for null)
  maxTime,        \* argument of runFullSimulation, ms
  timeStep,       \* argument of runFullSimulation, ms
  currentState,   \* local currentState of runFullSimulation
  results,        \* local results of runFullSimulation (returned at done),
                  \* which toggleSimulation stores as flightData
  steps           \* number of simulateFlightStep calls made by the run

simVars == <<pc, rocketPhysics, motorData, maxTime, timeStep, currentState,
             results, steps>>

VARIABLES
  components,     \* RocketDesigner state components: of each component
                  \* its id, type, y, width, height, mass (0.5 g) and
                  \* dragCoefficient (1/100)
  selectedMotor,  \* RocketDesigner state (NoMotor for null)
  analysisPhase,  \* StabilityAnalysis state: powered, coast, recovery
  metrics,        \* StabilityAnalysis state (NoMetrics for null)
  effectPending,  \* StabilityAnalysis: a render has been committed whose
                  \* effect (calculateStabilityMetrics) has not run yet
  previous        \* the last change of the props of the mounted
                  \* StabilityAnalysis, and the metrics it found

stabVars == <<components, selectedMotor, analysisPhase, metrics,
              effectPending, previous>>

VARIABLES
  selectedComponent,  \* RocketDesigner state (NoSelection for null)
  draggedComponent,   \* RocketCanvas state (NoSelection for null)
  showComponentProps, \* RocketDesigner state: the property editor is open
  isSimulating,       \* RocketDesigner state
  now                 \* the clock Date.now() reads, ms

designVars == <<selectedComponent, draggedComponent, showComponentProps,
                isSimulating, now>>

VARIABLES
  activeTab,          \* RocketDesigner state: SimulationPanel is mounted
                      \* while it is "simulate", StabilityAnalysis while
                      \* it is "stability"
  simulationData,     \* SimulationPanel state: the live telemetry
  intervals           \* SimulationPanel: the intervals its effect has set
                      \* in the simulation it is showing (0: none runs)

panelVars == <<activeTab, simulationData, intervals>>

otherVars == <<designVars, panelVars>>

vars == <<simVars, stabVars, designVars, panelVars>>

----------------------------------------------------------------------------
(* Arithmetic helpers *)

Abs(x) == IF x < 0 THEN -x ELSE x

Max(a, b) == IF a >= b THEN a ELSE b

Min(a, b) == IF a <= b THEN a ELSE b

(* a*b/c rounded toward zero, for a of either sign, b >= 0 and           *)
(* 0 < c <= 46340: with |a| = qa*c + ra and b = qb*c + rb,                 *)
(* |a|*b = c*(qa*b + ra*qb) + ra*rb and ra*rb < 2^31.                      *)
MulDivNat(a, b, c) ==
  (a \div c) * b + (a % c) * (b \div c) + ((a % c) * (b % c)) \div c

MulDiv(a, b, c) ==
  IF a >= 0 THEN MulDivNat(a, b, c) ELSE -MulDivNat(-a, b, c)

----------------------------------------------------------------------------
(* Data: the catalog entries and component defaults used as inputs *)

(* a null motor / selectedMotor *)
NoMotor == [designation |-> "null"]

HasMotor(motor) == motor.designation # "null"

Motor(name, ti, bt, pm, tm, curve) ==
  [designation |-> name, totalImpulse |-> ti, burnTime |-> bt,
   propellantMass |-> pm, totalMass |-> tm, thrustCurve |-> curve]

P(t, f) == [time |-> t, thrust |-> f]

(* MOTOR_DATABASE entries: totalImpulse in uN s, then ms, ug, uN *)
MotorA8 ==
  Motor("A8-3", 2500000, 500, 1800000, 8700000,
        <<P(0, 0), P(20, 12150000), P(100, 8500000), P(300, 5200000),
          P(450, 3100000), P(500, 0)>>)

MotorB6 ==
  Motor("B6-4", 5000000, 800, 3200000, 11700000,
        <<P(0, 0), P(20, 12800000), P(100, 10100000), P(400, 6800000),
          P(700, 4200000), P(800, 0)>>)

MotorC6 ==
  Motor("C6-5", 10000000, 1600, 6500000, 18600000,
        <<P(0, 0), P(40, 14200000), P(200, 11800000), P(800, 7200000),
          P(1400, 3800000), P(1600, 0)>>)

Motors == {MotorA8, MotorB6, MotorC6}

Comp(ty, y, w, h, m, cd) ==
  [type |-> ty, y |-> y, width |-> w, height |-> h, mass |-> m,
   dragCoefficient |-> cd]

(* The concrete scenario of the specification, built from the component    *)
(* library defaults: nose cone, body tube, fin set and parachute, 0.32 kg. *)
ScenarioRocket ==
  <<Comp("nosecone", 0, 40, 60, 50000000, 15),
    Comp("bodytube", 60, 40, 300, 150000000, 45),
    Comp("fins", 360, 60, 40, 80000000, 2),
    Comp("parachute", 20, 30, 25, 40000000, 130)>>

(* A nose cone alone (library defaults): light, flies high. *)
NoseOnlyRocket == <<Comp("nosecone", 0, 40, 60, 50000000, 15)>>

(* Library parts edited in the property panel to a wide canopy: the         *)
(* reference area is taken from the widest part, so it descends slowly.    *)
CanopyRocket ==
  <<Comp("bodytube", 0, 40, 100, 150000000, 0),
    Comp("parachute", 0, 505, 25, 40000000, 130)>>

Designs == {ScenarioRocket, NoseOnlyRocket, CanopyRocket}

(* a body tube under a canopy edited to a width of 700 *)
DropTestRocket ==
  <<Comp("bodytube", 0, 40, 100, 150000000, 0),
    Comp("parachute", 0, 700, 25, 40000000, 130)>>

(* LaunchConditions of toggleSimulation: altitude m, temperature deg C *)
DefaultLaunchConditions == [altitude |-> 0, temperature |-> 20]

DefaultMaxTime == 60000

DefaultTimeStep == 10

(* maxTime and timeStep values the runs are started with (ms) *)
MaxTimes == {120, 2200, DefaultMaxTime}

TimeSteps == {DefaultTimeStep, 125, 250, 500}

----------------------------------------------------------------------------
(* RocketDesigner.toggleSimulation: the RocketPhysics handed to the engine *)

RECURSIVE SumMass(_)
SumMass(comps) ==
  IF comps = <<>> THEN 0 ELSE Head(comps).mass + SumMass(Tail(comps))

RECURSIVE SumDrag(_)
SumDrag(comps) ==
  IF comps = <<>> THEN 0
  ELSE Head(comps).dragCoefficient + SumDrag(Tail(comps))

RECURSIVE MaxWidth(_)
MaxWidth(comps) ==
  IF Len(comps) = 1 THEN Head(comps).width
  ELSE Max(Head(comps).width, MaxWidth(Tail(comps)))

(* Math.PI * (width / 2000)^2 in mm^2, pi as 355/113 *)
ReferenceArea(w) == (355 * w * w) \div 452

toggleSimulationPhysics(comps, motor) ==
  [totalMass |-> SumMass(comps)
                   + (IF HasMotor(motor) THEN motor.totalMass ELSE 0),
   dryMass |-> SumMass(comps),
   propellantMass |-> IF HasMotor(motor) THEN motor.propellantMass ELSE 0,
   dragCoefficient |-> SumDrag(comps),
   referenceArea |-> ReferenceArea(MaxWidth(comps))]

(* A RocketPhysics record given to the engine directly, whose total mass   *)
(* is the dry mass plus the propellant alone (no motor casing).            *)
PropellantOnlyPhysics(comps, motor) ==
  LET rp == toggleSimulationPhysics(comps, motor)
  IN  [rp EXCEPT !.totalMass = rp.dryMass + rp.propellantMass]

----------------------------------------------------------------------------
(* PhysicsEngine *)

gravity == 9810

earthRadius == 6371000

(* calculateAirDensity(altitude, temperature): altitude in um above sea     *)
(* level, temperature in deg C; result in 0.01 g/m^3.                      *)
(*   temperatureAtAltitude = temperature - 0.0065 * altitude               *)
(*   pressure = 101325 * (1 - 0.0065 * altitude / 288.15) ^ 5.257          *)
(*   density  = pressure / (287 * (temperatureAtAltitude + 273.15))        *)
(* x = 0.0065 h / 288.15 = h / 44331 m is held in 1e-6; the power is its   *)
(* binomial series to the third order (x < 0.05 below 2 km); the last      *)
(* quotient is a long division in two stages.                              *)
calculateAirDensity(altitude, temperature) ==
  LET h  == altitude \div 1000
      x  == (h * 1000) \div 44331
      x2 == (x * x) \div 1000000
      x3 == (x2 * x) \div 1000000
      f  == 1000000 - MulDiv(5257, x, 1000) + MulDiv(11190, x2, 1000)
              - MulDiv(12148, x3, 1000)
      pressure == MulDiv(101325, f, 1000) \div 1000
      temperatureAtAltitude ==
        temperature * 1000 + 273150 - MulDiv(65, h, 10000)
      rt == (287 * temperatureAtAltitude) \div 1000
      r1 == pressure % rt
      r2 == (r1 * 1000) % rt
  IN  (pressure \div rt) * 100000 + ((r1 * 1000) \div rt) * 100
        + (r2 * 100) \div rt

(* calculateDragForce: 0.5 * airDensity * velocity^2 * Cd * area, in uN;   *)
(* the velocity (um/s, >= 0) enters in mm/s                                *)
calculateDragForce(velocity, airDensity, dragCoefficient, referenceArea) ==
  LET v  == velocity \div 1000
      v2 == MulDiv(v, v, 1000)
      q  == MulDiv(v2, airDensity, 2000) \div 100
  IN  MulDiv(MulDiv(q, dragCoefficient, 100), referenceArea, 1000)

(* this.gravity * (6371000 / (6371000 + altitude))^2, to first order in    *)
(* altitude / 6371000, in mm/s^2                                           *)
gravityAtAltitude(altitude) ==
  gravity - (2 * gravity * (altitude \div 1000000)) \div earthRadius

(* force / mass in mm/s^2: force in uN, mass in ug entering in 0.01 g *)
Acceleration(force, mass) == MulDiv(force, 100, mass \div 10000)

(* The sample time is kept as the exact multiple of the step together with *)
(* the way the double that `time + deltaTime` accumulates from 0 compares   *)
(* with it: -1 below, 0 equal, 1 above.  Steps of 0.125, 0.25 and 0.5 s     *)
(* accumulate exactly; for 0.01 s the sign is that of IEEE-754 addition,    *)
(* by ranges of the step count up to 6002.                                  *)
TimeRounding(deltaTime, time) ==
  IF deltaTime # 10 THEN 0
  ELSE LET k == time \div 10
       IN  CASE k \in 10..14 \/ k \in 208..1789 \/ k \in 4309..6002 -> -1
             [] k = 6 \/ k \in 18..205 \/ k \in 1793..4305 -> 1
             [] OTHER -> 0

(* state.time < t, state.time <= t and state.time > t on doubles *)
Before(state, t) ==
  state.time < t \/ (state.time = t /\ state.timeRounding < 0)

NotAfter(state, t) ==
  state.time < t \/ (state.time = t /\ state.timeRounding <= 0)

After(state, t) == ~NotAfter(state, t)

(* motorData && time <= motorData.burnTime *)
Burning(motor, state) == HasMotor(motor) /\ NotAfter(state, motor.burnTime)

(* thrustCurve.find(point => Math.abs(point.time - time) < deltaTime / 2)  *)
(* the index of the first matching point, 0 when there is none             *)
RECURSIVE FindThrustPoint(_, _, _, _)
FindThrustPoint(curve, time, deltaTime, i) ==
  IF i > Len(curve) THEN 0
  ELSE IF 2 * Abs(curve[i].time - time) < deltaTime THEN i
  ELSE FindThrustPoint(curve, time, deltaTime, i + 1)

CurrentThrust(motor, state, deltaTime) ==
  IF Burning(motor, state)
    THEN LET i == FindThrustPoint(motor.thrustCurve, state.time, deltaTime, 1)
         IN  IF i = 0 THEN 0 ELSE motor.thrustCurve[i].thrust
    ELSE 0

(* mutant: depletion that does not stop at burnTime *)
NewMassNeverBurntOut(motor, state, deltaTime) ==
  IF HasMotor(motor)
    THEN state.mass - MulDiv(motor.propellantMass, deltaTime, motor.burnTime)
    ELSE state.mass

NewMass(motor, state, deltaTime) ==
  IF Burning(motor, state)
    THEN state.mass - MulDiv(motor.propellantMass, deltaTime, motor.burnTime)
    ELSE state.mass

(* mutant: drag taken along the velocity *)
dragAccelerationAlong(velocity, dragForce, mass) ==
  IF velocity > 0 THEN Acceleration(dragForce, mass)
                  ELSE -Acceleration(dragForce, mass)

(* velocity > 0 ? -dragForce / mass : dragForce / mass *)
dragAcceleration(velocity, dragForce, mass) ==
  IF velocity > 0 THEN -Acceleration(dragForce, mass)
                  ELSE Acceleration(dragForce, mass)

simulateFlightStep(state, rp, motor, launchConditions, deltaTime) ==
  LET time     == state.time
      altitude == state.altitude
      velocity == state.velocity
      mass     == state.mass
      thrust   == CurrentThrust(motor, state, deltaTime)
      airDensity ==
        calculateAirDensity(launchConditions.altitude * 1000000 + altitude,
                            launchConditions.temperature)
      dragForce ==
        calculateDragForce(Abs(velocity), airDensity, rp.dragCoefficient,
                           rp.referenceArea)
      thrustAcceleration == Acceleration(thrust, mass)
      totalAcceleration ==
        thrustAcceleration + dragAcceleration(velocity, dragForce, mass)
          - gravityAtAltitude(altitude)
      newVelocity == velocity + totalAcceleration * deltaTime
      newAltitude ==
        Max(0, altitude + MulDiv(velocity, deltaTime, 1000)
                 + MulDiv(totalAcceleration, deltaTime * deltaTime, 2000))
  IN  [time |-> time + deltaTime,
       timeRounding |-> TimeRounding(deltaTime, time + deltaTime),
       altitude |-> newAltitude,
       velocity |-> newVelocity,
       acceleration |-> totalAcceleration,
       mass |-> NewMass(motor, state, deltaTime),
       thrust |-> thrust,
       drag |-> dragForce,
       verticalVelocity |-> newVelocity,
       lateralVelocity |-> 0,
       positionY |-> newAltitude]

(* mutant: a first sample that carries the dry mass *)
InitialStateDry(rp) ==
  [time |-> 0, timeRounding |-> 0,
   altitude |-> 0, velocity |-> 0, acceleration |-> 0,
   mass |-> rp.dryMass, thrust |-> 0, drag |-> 0,
   verticalVelocity |-> 0, lateralVelocity |-> 0, positionY |-> 0]

(* the first currentState of runFullSimulation *)
InitialState(rp) ==
  [time |-> 0, timeRounding |-> 0,
   altitude |-> 0, velocity |-> 0, acceleration |-> 0,
   mass |-> rp.totalMass, thrust |-> 0, drag |-> 0,
   verticalVelocity |-> 0, lateralVelocity |-> 0, positionY |-> 0]

(* mutant: the while condition without its time limit *)
LoopConditionUntimed(state, maxT) ==
  state.altitude > 0 \/ state.velocity > 0 \/ Before(state, 1000)

(* the while condition of runFullSimulation *)
LoopCondition(state, maxT) ==
  /\ Before(state, maxT)
  /\ (state.altitude > 0 \/ state.velocity > 0 \/ Before(state, 1000))

(* the landing test inside the loop *)
HasLanded(state) ==
  /\ state.altitude <= 0
  /\ Abs(state.velocity) < 1000000
  /\ After(state, 1000)

(* currentState.altitude = 0; currentState.velocity = 0 *)
ForcedLanding(state) == [state EXCEPT !.altitude = 0, !.velocity = 0]

----------------------------------------------------------------------------
(* The numbers of the stability evaluator are the program's IEEE 754       *)
(* doubles.  A double is a record [cls, sign, mant, exp]: cls "num" is the *)
(* number sign * M * 2^exp, where sign is 1 or -1 and mant holds the limbs *)
(* of M in base 2^14, least significant first,                             *)
(*     M = mant[1] + mant[2] * 2^14 + mant[3] * 2^28 + mant[4] * 2^42,     *)
(* with 2^52 <= M < 2^53; zero has mant <<0, 0, 0, 0>>, exp 0 and sign 1   *)
(* (the evaluator cannot tell -0 from 0: none of its divisors is           *)
(* negative).  cls "inf" is sign * Infinity and cls "nan" is NaN.  Every   *)
(* operation takes the exact result and rounds it to the nearest double,   *)
(* ties to even, as the program's +, -, * and / do.  The exponent is not   *)
(* bounded: the values here are far from overflow and from the subnormal   *)
(* range.  Natural numbers of any size are sequences of limbs, least       *)
(* significant first.                                                      *)

(* a + b + c for a carry c of 0 or 1 *)
RECURSIVE NatAdd(_, _, _)
NatAdd(a, b, c) ==
  IF a = <<>> /\ b = <<>> THEN (IF c = 0 THEN <<>> ELSE <<c>>)
  ELSE LET limb == (IF a = <<>> THEN 0 ELSE a[1])
                     + (IF b = <<>> THEN 0 ELSE b[1]) + c
       IN  <<limb % 16384>>
             \o NatAdd(IF a = <<>> THEN a ELSE Tail(a),
                       IF b = <<>> THEN b ELSE Tail(b), limb \div 16384)

(* a - b - c for a borrow c of 0 or 1 and a >= b + c, in the limbs of a *)
RECURSIVE NatSub(_, _, _)
NatSub(a, b, c) ==
  IF a = <<>> THEN <<>>
  ELSE LET limb == a[1] - (IF b = <<>> THEN 0 ELSE b[1]) - c
       IN  <<limb % 16384>>
             \o NatSub(Tail(a), IF b = <<>> THEN b ELSE Tail(b),
                       IF limb < 0 THEN 1 ELSE 0)

(* -1, 0 or 1 as a is below, equal to or above b, from limb i down *)
RECURSIVE NatCmp(_, _, _)
NatCmp(a, b, i) ==
  IF i = 0 THEN 0
  ELSE LET x == IF i > Len(a) THEN 0 ELSE a[i]
           y == IF i > Len(b) THEN 0 ELSE b[i]
       IN  IF x < y THEN -1 ELSE IF x > y THEN 1 ELSE NatCmp(a, b, i - 1)

(* a * k + c for a limb k and a carry c *)
RECURSIVE MulSmall(_, _, _)
MulSmall(a, k, c) ==
  IF a = <<>> THEN (IF c = 0 THEN <<>> ELSE <<c>>)
  ELSE LET limb == a[1] * k + c
       IN  <<limb % 16384>> \o MulSmall(Tail(a), k, limb \div 16384)

(* the limbs of a * b from limb i on, for a and b of four limbs: limb i is *)
(* the sum of the products a[j] * b[i + 1 - j] and of the carry            *)
RECURSIVE NatMul(_, _, _, _)
NatMul(a, b, i, c) ==
  IF i = 8 THEN <<c>>
  ELSE LET Limb(j) == IF j < 1 \/ j > 4 THEN 0 ELSE b[j]
           limb == a[1] * Limb(i) + a[2] * Limb(i - 1)
                     + a[3] * Limb(i - 2) + a[4] * Limb(i - 3) + c
       IN  <<limb % 16384>> \o NatMul(a, b, i + 1, limb \div 16384)

(* a * 2^k *)
ShiftLeft(a, k) ==
  [i \in 1..(k \div 14) |-> 0] \o MulSmall(a, 2^(k % 14), 0)

(* the number of bits of a: 0 for 0 *)
RECURSIVE BitLen(_)
BitLen(a) ==
  IF a = <<>> THEN 0
  ELSE IF a[Len(a)] = 0 THEN BitLen(SubSeq(a, 1, Len(a) - 1))
  ELSE 14 * (Len(a) - 1)
         + (CHOOSE k \in 1..14 : 2^(k - 1) <= a[Len(a)] /\ a[Len(a)] < 2^k)

(* Division by a limb d, for a remainder r < d so far, the limbs digits of *)
(* the dividend still to come, most significant first, and the quotient q  *)
(* so far.                                                                 *)
RECURSIVE ShortDiv(_, _, _, _)
ShortDiv(r, digits, d, q) ==
  IF digits = <<>> THEN [q |-> q, r |-> <<r>>]
  ELSE ShortDiv((r * 16384 + Head(digits)) % d, Tail(digits), d,
                <<(r * 16384 + Head(digits)) \div d>> \o q)

(* the largest limb at most limb whose product p with d is at most window *)
RECURSIVE Fit(_, _, _, _)
Fit(window, d, limb, p) ==
  IF NatCmp(p, window, 5) > 0 THEN Fit(window, d, limb - 1, NatSub(p, d, 0))
  ELSE [limb |-> limb, r |-> SubSeq(NatSub(window, p, 0), 1, 4)]

(* Long division by a divisor d of four limbs whose last is at least 2^13. *)
(* r < d is the remainder so far, in four limbs; digits are the limbs of   *)
(* the dividend still to come, most significant first; q is the quotient   *)
(* so far.  The estimate of a limb of the quotient from the two leading    *)
(* limbs is at most 2 above it.                                            *)
RECURSIVE LongDiv(_, _, _, _)
LongDiv(r, digits, d, q) ==
  IF digits = <<>> THEN [q |-> q, r |-> r]
  ELSE LET Step(window, estimate) ==
             Fit(window, d, estimate,
                 SubSeq(MulSmall(d, estimate, 0) \o <<0>>, 1, 5))
           Continue(fit) ==
             LongDiv(fit.r, Tail(digits), d, <<fit.limb>> \o q)
       IN  Continue(Step(<<Head(digits)>> \o r,
                         IF (r[4] * 16384 + r[3]) \div d[4] > 16383 THEN 16383
                         ELSE (r[4] * 16384 + r[3]) \div d[4]))

NaN == [cls |-> "nan", sign |-> 1, mant |-> <<0, 0, 0, 0>>, exp |-> 0]

(* Infinity and -Infinity *)
Infinity(sign) ==
  [cls |-> "inf", sign |-> sign, mant |-> <<0, 0, 0, 0>>, exp |-> 0]

IsNaN(x) == x.cls = "nan"

(* 0 *)
IsZero(x) == x.cls = "num" /\ x.mant = <<0, 0, 0, 0>>

(* The double sign * q * 2^e for q of 53 bits in four limbs, or the next   *)
(* one away from zero.                                                     *)
Rounded(sign, q, e, up) ==
  IF ~up THEN [cls |-> "num", sign |-> sign, mant |-> q, exp |-> e]
  ELSE IF q = <<16383, 16383, 16383, 2047>>
    THEN [cls |-> "num", sign |-> sign, mant |-> <<0, 0, 0, 1024>>,
          exp |-> e + 1]
  ELSE [cls |-> "num", sign |-> sign,
        mant |-> SubSeq(NatAdd(q, <<1>>, 0), 1, 4), exp |-> e]

(* The double nearest to sign * v, ties to even, for a value v with        *)
(* n * 2^e <= v < (n + 1) * 2^e that is n * 2^e unless inexact: n is cut   *)
(* to its 53 leading bits, and rounded up when the first bit cut is set    *)
(* and either more is cut or the last bit kept is odd.                     *)
Double(sign, n, e, inexact) ==
  LET k == BitLen(n) - 53
      (* a / 2^j rounded down *)
      ShiftRight(a, j) ==
        [i \in 1..(Len(a) - (j \div 14)) |->
           (a[i + (j \div 14)] \div 2^(j % 14))
             + (IF i + (j \div 14) < Len(a)
                  THEN (a[i + (j \div 14) + 1] % 2^(j % 14))
                         * 2^(14 - (j % 14))
                  ELSE 0)]
      (* bit i of a, bit 0 the least significant *)
      Bit(a, i) == (a[(i \div 14) + 1] \div 2^(i % 14)) % 2
      (* a has a bit set below bit i *)
      AnyBitBelow(a, i) ==
        \/ a[(i \div 14) + 1] % 2^(i % 14) # 0
        \/ \E j \in 1..(i \div 14) : a[j] # 0
  IN  IF k = -53
        THEN [cls |-> "num", sign |-> 1, mant |-> <<0, 0, 0, 0>>, exp |-> 0]
      ELSE IF k <= 0
        THEN [cls |-> "num", sign |-> sign,
              mant |-> SubSeq(ShiftLeft(n, -k) \o <<0, 0, 0>>, 1, 4),
              exp |-> e + k]
      ELSE Rounded(sign, SubSeq(ShiftRight(n, k), 1, 4), e + k,
                   /\ Bit(n, k - 1) = 1
                   /\ (inexact \/ Bit(n, k) = 1 \/ AnyBitBelow(n, k - 1)))

(* the double of a whole number *)
Whole(k) ==
  LET Limbs(n) ==
        <<n % 16384, (n \div 16384) % 16384, n \div 268435456>>
  IN  Double(IF k < 0 THEN -1 ELSE 1, Limbs(IF k < 0 THEN -k ELSE k), 0,
             FALSE)

(* x * y *)
Times(x, y) ==
  IF IsNaN(x) \/ IsNaN(y) THEN NaN
  ELSE IF x.cls = "inf" \/ y.cls = "inf"
    THEN (IF IsZero(x) \/ IsZero(y) THEN NaN ELSE Infinity(x.sign * y.sign))
  ELSE IF IsZero(x) THEN x
  ELSE IF IsZero(y) THEN y
  ELSE Double(x.sign * y.sign, NatMul(x.mant, y.mant, 1, 0), x.exp + y.exp,
              FALSE)

(* x / y: the quotient of the mantissas to 55 bits or more, and whether a  *)
(* remainder is left; a divisor whose mantissa is one limb, as that of a   *)
(* small whole number, divides limb by limb                                *)
Over(x, y) ==
  LET Quotient(qr, e) ==
        Double(x.sign * y.sign, qr.q, e, \E i \in 1..Len(qr.r) : qr.r[i] # 0)
      Digits(n) == <<n[4], n[3], n[2], n[1]>>
  IN  IF IsNaN(x) \/ IsNaN(y) THEN NaN
      ELSE IF x.cls = "inf"
        THEN (IF y.cls = "inf" THEN NaN ELSE Infinity(x.sign * y.sign))
      ELSE IF y.cls = "inf" THEN Whole(0)
      ELSE IF IsZero(y)
        THEN (IF IsZero(x) THEN NaN ELSE Infinity(x.sign * y.sign))
      ELSE IF IsZero(x) THEN x
      ELSE IF SubSeq(y.mant, 1, 3) = <<0, 0, 0>>
        THEN Quotient(ShortDiv(0, Digits(ShiftLeft(x.mant, 2)) \o <<0>>,
                               y.mant[4], <<>>),
                      x.exp - y.exp - 58)
      ELSE Quotient(LongDiv(ShiftLeft(x.mant, 2), <<0, 0, 0, 0>>,
                            ShiftLeft(y.mant, 3), <<>>),
                    x.exp - y.exp - 55)

(* x + y *)
Plus(x, y) ==
  LET (* for numbers other than 0 with a.exp >= b.exp; m is the mantissa   *)
      (* of a at the exponent of b                                         *)
      Sum(a, b, m) ==
        IF a.sign = b.sign
          THEN Double(a.sign, NatAdd(m, b.mant, 0), b.exp, FALSE)
        ELSE IF NatCmp(m, b.mant, Len(m)) < 0
          THEN Double(b.sign, NatSub(b.mant, m, 0), b.exp, FALSE)
        ELSE Double(a.sign, NatSub(m, b.mant, 0), b.exp, FALSE)
      Ordered(a, b) ==
        IF a.exp - b.exp > 60 THEN a
        ELSE Sum(a, b, ShiftLeft(a.mant, a.exp - b.exp))
  IN  IF IsNaN(x) \/ IsNaN(y) THEN NaN
      ELSE IF x.cls = "inf"
        THEN (IF y.cls = "inf" /\ y.sign # x.sign THEN NaN ELSE x)
      ELSE IF y.cls = "inf" THEN y
      ELSE IF IsZero(x) THEN y
      ELSE IF IsZero(y) THEN x
      ELSE Ordered(IF x.exp >= y.exp THEN x ELSE y,
                   IF x.exp >= y.exp THEN y ELSE x)

(* x - y *)
Minus(x, y) ==
  Plus(x, IF IsNaN(y) \/ IsZero(y) THEN y ELSE [y EXCEPT !.sign = -y.sign])

(* x < y, false when either is NaN *)
Less(x, y) ==
  LET (* the magnitude of a is below that of b *)
      Below(a, b) ==
        IF a.cls = "inf" THEN FALSE
        ELSE IF b.cls = "inf" THEN TRUE
        ELSE IF IsZero(b) THEN FALSE
        ELSE IF IsZero(a) THEN TRUE
        ELSE a.exp < b.exp
               \/ (a.exp = b.exp /\ NatCmp(a.mant, b.mant, 4) < 0)
  IN  /\ ~IsNaN(x)
      /\ ~IsNaN(y)
      /\ IF x.sign # y.sign THEN x.sign < y.sign
         ELSE IF x.sign = 1 THEN Below(x, y) ELSE Below(y, x)

(* x <= y, false when either is NaN *)
Leq(x, y) == ~IsNaN(x) /\ ~IsNaN(y) /\ ~Less(y, x)

(* Math.abs(x) *)
MathAbs(x) == [x EXCEPT !.sign = 1]

(* Math.min(x, y), Math.max(x, y): NaN when either is NaN *)
MathMin(x, y) ==
  IF IsNaN(x) \/ IsNaN(y) THEN NaN ELSE IF Less(y, x) THEN y ELSE x

MathMax(x, y) ==
  IF IsNaN(x) \/ IsNaN(y) THEN NaN ELSE IF Less(x, y) THEN y ELSE x

(* Math.PI, 3.141592653589793 = 7074237752028440 * 2^-51 *)
MathPI ==
  [cls |-> "num", sign |-> 1, mant |-> <<11544, 4368, 8117, 1608>>,
   exp |-> -51]

----------------------------------------------------------------------------
(* StabilityAnalysis.calculateStabilityMetrics.  Its inputs are component  *)
(* lists in small whole units: lengths in canvas units, masses in units of *)
(* 0.5 g.  The evaluator reads a length as the double of the whole number  *)
(* and a mass as the double of its decimal in kg (13 is 0.0065), and       *)
(* computes every sum, product and quotient in the order of the source.    *)

(* the selected motor as the evaluator reads it: propellantMass (6.5 g, in *)
(* 0.5 g); the live telemetry reads its burnTime and averageThrust, kept   *)
(* in thousandths                                                          *)
StabilityMotor ==
  [designation |-> "C6-5", propellantMass |-> 13,
   burnTime |-> 1600, averageThrust |-> 6250]

RECURSIVE MaxExtent(_)
MaxExtent(comps) ==
  IF Len(comps) = 1 THEN Head(comps).y + Head(comps).height
  ELSE Max(Head(comps).y + Head(comps).height, MaxExtent(Tail(comps)))

RECURSIVE MinY(_)
MinY(comps) ==
  IF Len(comps) = 1 THEN Head(comps).y
  ELSE Min(Head(comps).y, MinY(Tail(comps)))

(* Math.max(...c.width) *)
RocketDiameter(comps) == MaxWidth(comps)

(* the number a mass field holds, kg, for a mass in units of 0.5 g *)
Kilograms(mass) == Over(Whole(mass), Whole(2000))

(* the mass both reductions use for a component: half the propellant is    *)
(* added to an engine in the powered phase (mass += 0 in the others)       *)
PhaseMass(comp, motor, phase) ==
  IF comp.type = "engine" /\ HasMotor(motor) /\ phase = "powered"
    THEN Plus(Kilograms(comp.mass),
              Over(Kilograms(motor.propellantMass), Whole(2)))
    ELSE Kilograms(comp.mass)

(* totalMass: components.reduce((sum, comp) => sum + mass, 0) *)
RECURSIVE StabTotalMass(_, _, _)
StabTotalMass(comps, motor, phase) ==
  IF comps = <<>> THEN Whole(0)
  ELSE Plus(StabTotalMass(SubSeq(comps, 1, Len(comps) - 1), motor, phase),
            PhaseMass(comps[Len(comps)], motor, phase))

(* comp.y + comp.height / 2 *)
MidPoint(comp) == Plus(Whole(comp.y), Over(Whole(comp.height), Whole(2)))

(* components.reduce((sum, comp) => sum + (comp.y + comp.height / 2) *     *)
(* mass, 0)                                                                *)
RECURSIVE StabMoment(_, _, _)
StabMoment(comps, motor, phase) ==
  IF comps = <<>> THEN Whole(0)
  ELSE Plus(StabMoment(SubSeq(comps, 1, Len(comps) - 1), motor, phase),
            Times(MidPoint(comps[Len(comps)]),
                  PhaseMass(comps[Len(comps)], motor, phase)))

(* cg = totalMass > 0 ? moment / totalMass : 0 *)
StabCenterOfGravity(comps, motor, phase) ==
  LET totalMass == StabTotalMass(comps, motor, phase)
  IN  IF Less(Whole(0), totalMass)
        THEN Over(StabMoment(comps, motor, phase), totalMass)
        ELSE Whole(0)

(* normalForceDerivative.  Math.pow(x, 2) is x * x: the squares here are   *)
(* of whole numbers and of halves, which are exact.  Fins of height 0 have *)
(* finArea 0 and aspectRatio 0 / 0, NaN; fins of width 0 have aspectRatio  *)
(* Infinity and the derivative 0.                                          *)
NormalForceDerivative(comp) ==
  LET width  == Whole(comp.width)
      height == Whole(comp.height)
      radius == Over(width, Whole(2))
      finArea == Times(width, height)
      aspectRatio == Over(Times(height, height), finArea)
  IN  CASE comp.type = "nosecone" ->
             Times(Times(Whole(2), MathPI), Times(radius, radius))
        [] comp.type = "bodytube" ->
             Times(Times(Over(Whole(1), Whole(10)), width), height)
        [] comp.type = "fins" ->
             Times(Times(Plus(Whole(1), Over(Whole(1), aspectRatio)),
                         finArea),
                   Whole(4))
        [] comp.type = "transition" ->
             Times(Times(Times(MathPI, width), height),
                   Over(Whole(1), Whole(2)))
        [] OTHER -> Whole(0)

(* mutant: a contribution that falls as the component moves aft *)
ContributionForward(comp) ==
  CASE comp.type = "nosecone" ->
         Minus(Times(Over(Whole(2), Whole(3)), Whole(comp.height)),
               Whole(comp.y))
    [] comp.type = "fins" ->
         Minus(Over(Whole(comp.height), Whole(3)), Whole(comp.y))
    [] comp.type \in {"bodytube", "transition"} ->
         Minus(Over(Whole(comp.height), Whole(2)), Whole(comp.y))
    [] OTHER -> Whole(0)

(* contribution *)
Contribution(comp) ==
  CASE comp.type = "nosecone" ->
         Plus(Whole(comp.y),
              Times(Over(Whole(2), Whole(3)), Whole(comp.height)))
    [] comp.type = "fins" ->
         Plus(Whole(comp.y), Over(Whole(comp.height), Whole(3)))
    [] comp.type \in {"bodytube", "transition"} ->
         Plus(Whole(comp.y), Over(Whole(comp.height), Whole(2)))
    [] OTHER -> Whole(0)

(* cpNumerator after the forEach *)
RECURSIVE CpNumerator(_)
CpNumerator(comps) ==
  IF comps = <<>> THEN Whole(0)
  ELSE Plus(CpNumerator(SubSeq(comps, 1, Len(comps) - 1)),
            Times(Contribution(comps[Len(comps)]),
                  NormalForceDerivative(comps[Len(comps)])))

(* cpDenominator after the forEach *)
RECURSIVE CpDenominator(_)
CpDenominator(comps) ==
  IF comps = <<>> THEN Whole(0)
  ELSE Plus(CpDenominator(SubSeq(comps, 1, Len(comps) - 1)),
            NormalForceDerivative(comps[Len(comps)]))

(* cpDenominator > 0 ? cpNumerator / cpDenominator : 0 *)
StabCenterOfPressure(comps) ==
  LET cpDenominator == CpDenominator(comps)
  IN  IF Less(Whole(0), cpDenominator)
        THEN Over(CpNumerator(comps), cpDenominator)
        ELSE Whole(0)

(* (cp - cg) / (rocketDiameter || 1) *)
StaticMargin(cp, cg, rocketDiameter) ==
  Over(Minus(cp, cg), Whole(IF rocketDiameter = 0 THEN 1 ELSE rocketDiameter))

(* components.filter(c => c.type === ty) *)
OfType(comps, ty) == SelectSeq(comps, LAMBDA c : c.type = ty)

(* Math.min(100, fins.length * 25 + (fins[0]?.height || 0) / rocketLength  *)
(* * 50), 0 without fins; h / 0 is Infinity for h > 0 and NaN for h = 0    *)
FinEffectiveness(comps) ==
  LET fins == OfType(comps, "fins")
  IN  IF Len(fins) = 0 THEN Whole(0)
      ELSE MathMin(Whole(100),
                   Plus(Whole(Len(fins) * 25),
                        Times(Over(Whole(fins[1].height),
                                   Whole(MaxExtent(comps) - MinY(comps))),
                              Whole(50))))

(* Math.min(100, staticMargin * 20 + finEffectiveness * 0.3) *)
DynamicStability(staticMargin, finEffectiveness) ==
  MathMin(Whole(100),
          Plus(Times(staticMargin, Whole(20)),
               Times(finEffectiveness, Over(Whole(3), Whole(10)))))

(* components.some(c => c.type === 'parachute') *)
HasRecovery(comps) == \E i \in 1..Len(comps) : comps[i].type = "parachute"

(* hasRecovery ? 85 + Math.random() * 10 : 20, for the random draw given *)
RecoveryStability(hasRecovery, random) ==
  IF hasRecovery THEN Plus(Whole(85), Times(random, Whole(10)))
  ELSE Whole(20)

(* overallRating: the reward of a margin with staticMargin > 1 &&          *)
(* staticMargin < 3, the penalty of the distance from 2 otherwise          *)
OverallRating(staticMargin, finEffectiveness, hasRecovery) ==
  IF Less(Whole(1), staticMargin) /\ Less(staticMargin, Whole(3))
    THEN MathMin(Whole(100),
           Plus(Plus(Times(staticMargin, Whole(30)),
                     Times(finEffectiveness, Over(Whole(1), Whole(2)))),
                Whole(IF hasRecovery THEN 20 ELSE 0)))
    ELSE MathMax(Whole(0),
           Minus(Whole(50),
                 Times(MathAbs(Minus(staticMargin, Whole(2))), Whole(25))))

(* one push, made when the condition holds *)
Advice(cond, text) == IF cond THEN <<text>> ELSE <<>>

(* mutant: the warnings without the two about the static margin *)
WarningsOfPartsOnly(staticMargin, comps) ==
  LET fins == Len(OfType(comps, "fins"))
  IN  Advice(fins = 0, "No fins detected - rocket will be unstable")
   \o Advice(fins # 0 /\ fins < 3,
             "Insufficient fin count for optimal stability")
   \o Advice(~HasRecovery(comps), "No recovery system detected")
   \o Advice(Len(OfType(comps, "engine")) = 0,
             "No propulsion system detected")

Warnings(staticMargin, comps) ==
  LET fins == Len(OfType(comps, "fins"))
  IN  Advice(Less(staticMargin, Whole(1)),
             "Static margin too low - rocket may be unstable")
   \o Advice(~Less(staticMargin, Whole(1))
               /\ Less(Whole(3), staticMargin),
             "Static margin too high - rocket may be overstable")
   \o Advice(fins = 0, "No fins detected - rocket will be unstable")
   \o Advice(fins # 0 /\ fins < 3,
             "Insufficient fin count for optimal stability")
   \o Advice(~HasRecovery(comps), "No recovery system detected")
   \o Advice(Len(OfType(comps, "engine")) = 0,
             "No propulsion system detected")

Recommendations(staticMargin, comps) ==
  LET fins == Len(OfType(comps, "fins"))
  IN  Advice(Less(staticMargin, Whole(1)),
             "Move center of gravity forward or add more fin area")
   \o Advice(~Less(staticMargin, Whole(1))
               /\ Less(Whole(3), staticMargin),
             "Reduce fin size or move weight aft")
   \o Advice(fins = 0, "Add fin set for stability")
   \o Advice(fins # 0 /\ fins < 3,
             "Use at least 3 fins for best stability")
   \o Advice(~HasRecovery(comps),
             "Add parachute or streamer for safe recovery")
   \o Advice(Len(OfType(comps, "engine")) = 0,
             "Add a motor for powered flight")
   \o Advice(/\ Leq(Whole(1), staticMargin)
             /\ Leq(staticMargin, Whole(3))
             /\ fins >= 3 /\ HasRecovery(comps),
             "Excellent stability configuration!")

(* a null metrics *)
NoMetrics == [valid |-> FALSE]

(* the record handed to setMetrics *)
StabilityMetrics(comps, cg, cp, staticMargin, finEffectiveness, random) ==
  [valid |-> TRUE,
   staticMargin |-> staticMargin,
   dynamicStability |-> DynamicStability(staticMargin, finEffectiveness),
   centerOfGravity |-> cg,
   centerOfPressure |-> cp,
   finEffectiveness |-> finEffectiveness,
   recoveryStability |-> RecoveryStability(HasRecovery(comps), random),
   overallRating |->
     OverallRating(staticMargin, finEffectiveness, HasRecovery(comps)),
   recommendations |-> Recommendations(staticMargin, comps),
   warnings |-> Warnings(staticMargin, comps)]

(* the metrics once cg and cp are known *)
MetricsFrom(comps, cg, cp, random) ==
  CHOOSE m \in
    {StabilityMetrics(comps, cg, cp, staticMargin, finEffectiveness, random)
     : staticMargin \in {StaticMargin(cp, cg, RocketDiameter(comps))},
       finEffectiveness \in {FinEffectiveness(comps)}} : TRUE

(* mutant: an evaluator without the early return for an empty list *)
calculateStabilityMetricsOfAnyList(comps, motor, phase, random) ==
  IF Len(comps) = 0
    THEN StabilityMetrics(comps, Whole(0), Whole(0), Whole(0), Whole(0),
                          random)
    ELSE MetricsFrom(comps, StabCenterOfGravity(comps, motor, phase),
                     StabCenterOfPressure(comps), random)

(* what calculateStabilityMetrics hands to setMetrics for the value        *)
(* Math.random() returns; null for an empty component list                 *)
calculateStabilityMetrics(comps, motor, phase, random) ==
  IF Len(comps) = 0 THEN NoMetrics
  ELSE CHOOSE m \in
         {MetricsFrom(comps, cg, cp, random)
          : cg \in {StabCenterOfGravity(comps, motor, phase)},
            cp \in {StabCenterOfPressure(comps)}} : TRUE

(* the heading StabilityAnalysis renders: the 'No Components' card for     *)
(* null metrics, the analysis card otherwise                               *)
Heading(m) == IF ~m.valid THEN "No Components" ELSE "Stability Analysis"

(* getStaticMarginStatus(), which the card reads the colour of *)
getStaticMarginStatus(m) ==
  IF Less(m.staticMargin, Whole(1))
    THEN [color |-> "destructive", text |-> "Unstable"]
  ELSE IF Less(Whole(3), m.staticMargin)
    THEN [color |-> "warning", text |-> "Overstable"]
  ELSE [color |-> "success", text |-> "Stable"]

----------------------------------------------------------------------------
(* PhysicsEngine.calculateCenterOfGravity, on the same component lists.    *)

(* componentCg = comp.y + comp.height / 2 *)
componentCg(comp) == Plus(Whole(comp.y), Over(Whole(comp.height), Whole(2)))

(* totalMoment *)
RECURSIVE totalMoment(_)
totalMoment(comps) ==
  IF comps = <<>> THEN Whole(0)
  ELSE Plus(totalMoment(SubSeq(comps, 1, Len(comps) - 1)),
            Times(Kilograms(comps[Len(comps)].mass),
                  componentCg(comps[Len(comps)])))

(* totalMass is components.reduce((sum, comp) => sum + comp.mass, 0) *)
calculateCenterOfGravity(comps) ==
  LET RECURSIVE Sum(_)
      Sum(n) ==
        IF n = 0 THEN Whole(0)
        ELSE Plus(Sum(n - 1), Kilograms(comps[n].mass))
      totalMass == Sum(Len(comps))
  IN  IF IsZero(totalMass) THEN Whole(0)
      ELSE Over(totalMoment(comps), totalMass)

----------------------------------------------------------------------------
(* PhysicsEngine.calculateCenterOfPressure, on the same component lists.   *)

(* cpContribution *)
cpContribution(component) ==
  CASE component.type = "nosecone" ->
         Plus(Whole(component.y),
              Times(Over(Whole(2), Whole(3)), Whole(component.height)))
    [] component.type \in {"fins", "bodytube"} ->
         Plus(Whole(component.y), Over(Whole(component.height), Whole(2)))
    [] OTHER -> Whole(0)

(* area *)
area(component) ==
  LET radius == Over(Whole(component.width), Whole(2))
  IN  CASE component.type = "nosecone" ->
             Times(MathPI, Times(radius, radius))
        [] component.type = "fins" ->
             Times(Whole(component.width), Whole(component.height))
        [] component.type = "bodytube" ->
             Times(Times(Whole(component.width), Whole(component.height)),
                   Over(Whole(1), Whole(10)))
        [] OTHER -> Whole(0)

(* totalCpContribution after the forEach *)
RECURSIVE totalCpContribution(_)
totalCpContribution(comps) ==
  IF comps = <<>> THEN Whole(0)
  ELSE Plus(totalCpContribution(SubSeq(comps, 1, Len(comps) - 1)),
            Times(cpContribution(comps[Len(comps)]),
                  area(comps[Len(comps)])))

(* totalArea after the forEach *)
RECURSIVE totalArea(_)
totalArea(comps) ==
  IF comps = <<>> THEN Whole(0)
  ELSE Plus(totalArea(SubSeq(comps, 1, Len(comps) - 1)),
            area(comps[Len(comps)]))

(* totalArea > 0 ? totalCpContribution / totalArea : 0 *)
calculateCenterOfPressure(comps) ==
  LET total == totalArea(comps)
  IN  IF Less(Whole(0), total)
        THEN Over(totalCpContribution(comps), total)
        ELSE Whole(0)

(* PhysicsEngine.calculateStabilityMargin: (centerOfPressure -             *)
(* centerOfGravity) / diameter, Infinity or NaN for diameter 0             *)
calculateStabilityMargin(centerOfGravity, centerOfPressure, diameter) ==
  Over(Minus(centerOfPressure, centerOfGravity), Whole(diameter))

----------------------------------------------------------------------------
(* The initial state: nothing on the canvas, no motor, no run of the       *)
(* engine, the "design" tab shown.                                         *)

(* no selection, no drag: a null id *)
NoSelection == <<>>

(* no change has been made to the props of a mounted StabilityAnalysis *)
NoEvaluation == [op |-> "none", id |-> NoSelection, metrics |-> NoMetrics]

(* the initial simulationData, which resetSimulation restores *)
InitialSimulationData ==
  [altitude |-> Whole(0), velocity |-> Whole(0), acceleration |-> Whole(0),
   time |-> Whole(0), maxAltitude |-> Whole(0), burnTime |-> Whole(0),
   stability |-> Whole(0)]

Init ==
  /\ pc = "idle"
  /\ rocketPhysics = NoMetrics
  /\ motorData = NoMotor
  /\ maxTime = 0
  /\ timeStep = 0
  /\ currentState = NoMetrics
  /\ results = <<>>
  /\ steps = 0
  /\ components = <<>>
  /\ selectedMotor = NoMotor
  /\ analysisPhase = "powered"
  /\ metrics = NoMetrics
  /\ effectPending = FALSE
  /\ previous = NoEvaluation
  /\ selectedComponent = NoSelection
  /\ draggedComponent = NoSelection
  /\ showComponentProps = FALSE
  /\ isSimulating = FALSE
  /\ now = 0
  /\ activeTab = "design"
  /\ simulationData = InitialSimulationData
  /\ intervals = 0

----------------------------------------------------------------------------
(* PhysicsEngine.runFullSimulation as a state machine: the call, one       *)
(* action per kind of loop iteration, and the return.                      *)

(* const results = []; let currentState = {...}; results.push(...) *)
runFullSimulation(rp, motor, maxT, dt) ==
  /\ pc = "idle"
  /\ rocketPhysics' = rp
  /\ motorData' = motor
  /\ maxTime' = maxT
  /\ timeStep' = dt
  /\ currentState' = InitialState(rp)
  /\ results' = <<InitialState(rp)>>
  /\ steps' = 0
  /\ pc' = "loop"
  /\ UNCHANGED <<stabVars, otherVars>>

(* a call of the engine's public method: with the physics record           *)
(* toggleSimulation derives or one of the caller's own making, and with a  *)
(* catalog motor or null                                                   *)
Launch ==
  \E design \in Designs, motor \in Motors \cup {NoMotor},
     maxT \in MaxTimes, dt \in TimeSteps :
       \/ runFullSimulation(toggleSimulationPhysics(design, motor),
                            motor, maxT, dt)
       \/ /\ HasMotor(motor)
          /\ runFullSimulation(PropellantOnlyPhysics(design, motor),
                               motor, maxT, dt)

(* the engine called without a motor on the drop-test design *)
DropTest ==
  \E maxT \in MaxTimes, dt \in TimeSteps :
    runFullSimulation(toggleSimulationPhysics(DropTestRocket, NoMotor),
                      NoMotor, maxT, dt)

NextState ==
  simulateFlightStep(currentState, rocketPhysics, motorData,
                     DefaultLaunchConditions, timeStep)

(* one iteration of the loop whose landing test fails *)
StepFlight ==
  /\ pc = "loop"
  /\ LoopCondition(currentState, maxTime)
  /\ ~HasLanded(NextState)
  /\ currentState' = NextState
  /\ results' = Append(results, NextState)
  /\ steps' = steps + 1
  /\ UNCHANGED <<pc, rocketPhysics, motorData, maxTime, timeStep>>
  /\ UNCHANGED <<stabVars, otherVars>>

(* the iteration whose landing test holds: the step's sample, then the     *)
(* forced sample, then break                                               *)
StepLanding ==
  /\ pc = "loop"
  /\ LoopCondition(currentState, maxTime)
  /\ HasLanded(NextState)
  /\ currentState' = ForcedLanding(NextState)
  /\ results' = results \o <<NextState, ForcedLanding(NextState)>>
  /\ steps' = steps + 1
  /\ pc' = "done"
  /\ UNCHANGED <<rocketPhysics, motorData, maxTime, timeStep>>
  /\ UNCHANGED <<stabVars, otherVars>>

(* the while condition fails: return results *)
Return ==
  /\ pc = "loop"
  /\ ~LoopCondition(currentState, maxTime)
  /\ pc' = "done"
  /\ UNCHANGED <<rocketPhysics, motorData, maxTime, timeStep, currentState,
                 results, steps>>
  /\ UNCHANGED <<stabVars, otherVars>>

Next == Launch \/ DropTest \/ StepFlight \/ StepLanding \/ Return

Spec == Init /\ [][Next]_vars

(* The same call as a function of its arguments: what n more iterations of *)
(* the loop push after state (the budget is halved to keep the evaluation  *)
(* shallow), whether the loop has ended within them, and the calls of      *)
(* simulateFlightStep they make.                                           *)
RECURSIVE Iterations(_, _, _, _, _, _)
Iterations(state, n, rp, motor, maxT, dt) ==
  IF n = 1
    THEN IF ~LoopCondition(state, maxT)
           THEN [samples |-> <<>>, calls |-> 0, ended |-> TRUE]
           ELSE CHOOSE r \in
                  {IF HasLanded(next)
                     THEN [samples |-> <<next, ForcedLanding(next)>>,
                           calls |-> 1, ended |-> TRUE]
                     ELSE [samples |-> <<next>>, calls |-> 1,
                           ended |-> FALSE]
                   : next \in {simulateFlightStep(state, rp, motor,
                                 DefaultLaunchConditions, dt)}} : TRUE
    ELSE CHOOSE r \in
           {IF first.ended THEN first
            ELSE CHOOSE q \in
                   {[samples |-> first.samples \o rest.samples,
                     calls |-> first.calls + rest.calls,
                     ended |-> rest.ended]
                    : rest \in
                        {Iterations(first.samples[Len(first.samples)],
                                    n - n \div 2, rp, motor, maxT, dt)}}
                   : TRUE
            : first \in {Iterations(state, n \div 2, rp, motor, maxT, dt)}}
           : TRUE

(* the results runFullSimulation returns, with the number of its calls of  *)
(* simulateFlightStep: the loop makes at most maxTime / timeStep + 1       *)
(* iterations, as the time of a sample is that of the one before it plus   *)
(* timeStep                                                                *)
FlightData(rp, motor, maxT, dt) ==
  CHOOSE r \in
    {[results |-> <<InitialState(rp)>> \o run.samples, steps |-> run.calls]
     : run \in {Iterations(InitialState(rp), maxT \div dt + 1, rp, motor,
                           maxT, dt)}} : TRUE

----------------------------------------------------------------------------
(* The designer's shell: the clock that ids are made from, the updaters    *)
(* of RocketDesigner's handlers, and the tabs.  StabilityAnalysis is       *)
(* rendered while activeTab is "stability" and SimulationPanel while it is *)
(* "simulate"; the state of either lives from its mount to its unmount.    *)
(* A handler's state change is committed by a render; the effect of        *)
(* StabilityAnalysis runs after the commit of a render in which one of     *)
(* components, selectedMotor or analysisPhase has changed, and before the  *)
(* next handler's update is rendered.  The effect of SimulationPanel sets  *)
(* an interval after the commit of a render in which isSimulating or       *)
(* components has changed, while isSimulating; a simulation on display is  *)
(* followed through MaxIntervals of them.                                  *)

MaxClock == 1

MaxIntervals == 2

(* `${component.type}-${Date.now()}` *)
NewId(type, ms) == <<type, ms>>

(* the updates of one property: { [property]: value }; the position of a   *)
(* drag, { x, y }, is the update of y                                      *)
Update(property, value) == [property |-> property, value |-> value]

(* prev.map(comp => comp.id === id ? { ...comp, ...updates } : comp) *)
WithUpdates(prev, id, updates) ==
  [j \in 1..Len(prev) |->
     IF prev[j].id = id
       THEN [prev[j] EXCEPT ![updates.property] = updates.value]
       ELSE prev[j]]

(* prev.filter(comp => comp.id !== id) *)
WithoutId(prev, id) == SelectSeq(prev, LAMBDA comp : comp.id # id)

(* if (selectedComponent === id) setSelectedComponent(null) *)
SelectionAfterDelete(selected, id) ==
  IF selected = id THEN NoSelection ELSE selected

(* components.forEach(comp => onComponentDelete(comp.id)): the state       *)
(* updates of the calls, queued one after the other                        *)
RECURSIVE DeleteEach(_, _)
DeleteEach(prev, comps) ==
  IF comps = <<>> THEN prev
  ELSE DeleteEach(WithoutId(prev, Head(comps).id), Tail(comps))

(* the render that follows a change of components, selectedMotor or        *)
(* analysisPhase by a change of kind op (of the component id): while       *)
(* StabilityAnalysis is mounted it is committed with the metrics as they   *)
(* are, and the effect is due; while SimulationPanel shows a running       *)
(* simulation its effect clears the interval and sets the next one         *)
PropsChanged(op, id) ==
  /\ intervals # 0 => intervals < MaxIntervals
  /\ intervals' = IF intervals # 0 THEN intervals + 1 ELSE 0
  /\ effectPending' = (activeTab = "stability")
  /\ previous' =
       IF activeTab = "stability"
         THEN [op |-> op,
               id |-> IF op = "finsAft" THEN id ELSE NoSelection,
               metrics |-> IF op \in {"same", "finsAft"}
                             THEN metrics ELSE NoMetrics]
         ELSE previous
  /\ UNCHANGED metrics

(* the state of StabilityAnalysis after activeTab has become tab: a mount  *)
(* starts from useState(null) and useState("powered") with the effect due, *)
(* an unmount leaves no state                                              *)
StabilityAfterTabChange(tab) ==
  IF tab = activeTab
    THEN UNCHANGED <<analysisPhase, metrics, effectPending, previous>>
    ELSE /\ analysisPhase' = "powered"
         /\ metrics' = NoMetrics
         /\ effectPending' = (tab = "stability")
         /\ previous' = NoEvaluation

(* the state of SimulationPanel after activeTab has become tab and         *)
(* isSimulating has become simulating: its state lives from its mount to   *)
(* its unmount, so entering or leaving the "simulate" tab leaves the       *)
(* initial simulationData; a mount while simulating sets the first         *)
(* interval, and the end of the simulation clears the one that runs        *)
AfterTabChange(tab, simulating) ==
  /\ simulationData' =
       IF tab # activeTab /\ (tab = "simulate" \/ activeTab = "simulate")
         THEN InitialSimulationData ELSE simulationData
  /\ intervals' =
       IF tab # "simulate" \/ ~simulating THEN 0
       ELSE IF tab # activeTab THEN 1 ELSE intervals

(* time passes: Date.now() reads a later millisecond *)
DateNow ==
  /\ now < MaxClock
  /\ now' = now + 1
  /\ UNCHANGED <<selectedComponent, draggedComponent, showComponentProps,
                 isSimulating>>
  /\ UNCHANGED <<simVars, stabVars, panelVars>>

(* the ids of the tabs array *)
Tabs == {"design", "simulate", "analyze", "motors", "stability"}

(* onClick={() => setActiveTab(tab.id)} for one of tabs *)
setActiveTab(tabs) ==
  \E tab \in tabs :
    /\ ~effectPending
    /\ tab # activeTab
    /\ activeTab' = tab
    /\ AfterTabChange(tab, isSimulating)
    /\ StabilityAfterTabChange(tab)
    /\ UNCHANGED <<components, selectedMotor>>
    /\ UNCHANGED <<simVars, designVars>>

(* onMotorSelect={setSelectedMotor}: a click on the catalog entry motor;   *)
(* the motor catalog is shown in the "motors" tab, where neither           *)
(* StabilityAnalysis nor SimulationPanel is mounted; there is no way back  *)
(* to null                                                                 *)
onMotorSelect(motor) ==
  /\ activeTab = "motors"
  /\ selectedMotor # motor
  /\ selectedMotor' = motor
  /\ UNCHANGED <<components, analysisPhase, metrics, effectPending,
                 previous>>
  /\ UNCHANGED <<simVars, designVars, panelVars>>

(* the newComponent of handleDrop: { ...component, id, x, y } *)
NewPart(component, ms) ==
  [id |-> NewId(component.type, ms), type |-> component.type,
   y |-> component.y, width |-> component.width,
   height |-> component.height, mass |-> component.mass,
   dragCoefficient |-> component.dragCoefficient]

(* onDrop={handleDrop}: setComponents(prev => [...prev, newComponent]) for *)
(* the component data of the drag, one of parts; the component library to  *)
(* drag from is shown in every tab but "motors"; a design is followed up   *)
(* to limit components                                                     *)
handleDrop(parts, limit) ==
  \E component \in parts :
    /\ ~effectPending
    /\ activeTab # "motors"
    /\ Len(components) < limit
    /\ components' = Append(components, NewPart(component, now))
    /\ PropsChanged("other", NoSelection)
    /\ UNCHANGED <<selectedMotor, analysisPhase>>
    /\ UNCHANGED <<simVars, designVars, activeTab, simulationData>>

(* what the updates of the components with the id did: nothing, moved one  *)
(* fins component aft and nothing else, or other                           *)
UpdateKind(prev, id, updates) ==
  IF WithUpdates(prev, id, updates) = prev THEN "same"
  ELSE IF /\ updates.property = "y"
          /\ Len(SelectSeq(prev, LAMBDA comp : comp.id = id)) = 1
          /\ \A j \in 1..Len(prev) :
               prev[j].id = id =>
                 (prev[j].type = "fins" /\ updates.value > prev[j].y)
         THEN "finsAft"
         ELSE "other"

(* the Clear button of the canvas: components.forEach(c =>                 *)
(* onComponentDelete(c.id)); onComponentSelect(null), one render; on an    *)
(* empty canvas no handler is called and the list stays the array it is    *)
clearCanvas ==
  /\ ~effectPending
  /\ components' = DeleteEach(components, components)
  /\ selectedComponent' = NoSelection
  /\ IF components = <<>>
       THEN UNCHANGED <<metrics, effectPending, previous, intervals>>
       ELSE PropsChanged("delete", NoSelection)
  /\ UNCHANGED <<selectedMotor, analysisPhase>>
  /\ UNCHANGED <<draggedComponent, showComponentProps, isSimulating, now>>
  /\ UNCHANGED <<simVars, activeTab, simulationData>>

----------------------------------------------------------------------------
(* The stability view: RocketDesigner's handlers change the props of       *)
(* StabilityAnalysis, whose effect re-evaluates the metrics after the      *)
(* render of every change.  `previous` remembers what the last change was  *)
(* and, when it left the inputs equal or only moved a fins component aft,  *)
(* the metrics on display when it was made.                                *)

MaxComponents == 2

(* the component data of the drops *)
ComponentDomain ==
  {Comp("engine", 7, 1, 2, 13, 0),
   Comp("parachute", 2, 1, 1, 13, 130),
   Comp("transition", 3, 2, 1, 13, 25),
   Comp("fins", 7, 1, 1, 26, 2),
   Comp("fins", 7, 2, 0, 26, 2)}

(* values Math.random() may return *)
RandomDraws == {Whole(0), Over(Whole(1), Whole(2))}

(* the effect has run on the props of the last render: the metrics on      *)
(* display are those of components, selectedMotor and analysisPhase        *)
Evaluated == activeTab = "stability" /\ ~effectPending

(* useEffect(() => { calculateStabilityMetrics(); }, [components,          *)
(* selectedMotor, analysisPhase])                                          *)
useEffect ==
  \E random \in IF HasRecovery(components) THEN RandomDraws ELSE {Whole(0)} :
    /\ effectPending
    /\ metrics' = calculateStabilityMetrics(components, selectedMotor,
                                            analysisPhase, random)
    /\ effectPending' = FALSE
    /\ UNCHANGED <<components, selectedMotor, analysisPhase, previous>>
    /\ UNCHANGED <<simVars, otherVars>>

(* setComponents(prev => prev.map(comp => comp.id === id                   *)
(*   ? { ...comp, ...updates } : comp)), as its two callers call it for a  *)
(* component: RocketCanvas.handleMouseMove with the position { x, y } of a *)
(* drag, which ends where it began or, for a fins component, at one of the *)
(* stations; and the property editor's updateProperty with one of inputs,  *)
(* { [property]: value } for the value of a field                          *)
handleComponentUpdate(stations, inputs) ==
  \E i \in 1..Len(components) :
    \E updates \in
         {Update("y", y) :
            y \in {components[i].y}
                    \cup (IF components[i].type = "fins"
                            THEN stations ELSE {})}
           \cup inputs :
      /\ ~effectPending
      /\ components' = WithUpdates(components, components[i].id, updates)
      /\ PropsChanged(UpdateKind(components, components[i].id, updates),
                      components[i].id)
      /\ UNCHANGED <<selectedMotor, analysisPhase>>
      /\ UNCHANGED <<simVars, designVars, activeTab, simulationData>>

(* setComponents(prev => prev.filter(comp => comp.id !== id));             *)
(* if (selectedComponent === id) setSelectedComponent(null)                *)
handleComponentDelete ==
  \E i \in 1..Len(components) :
    /\ ~effectPending
    /\ components' = WithoutId(components, components[i].id)
    /\ selectedComponent' =
         SelectionAfterDelete(selectedComponent, components[i].id)
    /\ PropsChanged("delete", NoSelection)
    /\ UNCHANGED <<selectedMotor, analysisPhase>>
    /\ UNCHANGED <<draggedComponent, showComponentProps, isSimulating, now>>
    /\ UNCHANGED <<simVars, activeTab, simulationData>>

(* onClick={() => setAnalysisPhase(phase.key)}; the phase selector is      *)
(* part of the analysis card, rendered only while there are metrics        *)
setAnalysisPhase ==
  \E phase \in {"powered", "coast", "recovery"} :
    /\ ~effectPending
    /\ activeTab = "stability"
    /\ metrics.valid
    /\ phase # analysisPhase
    /\ analysisPhase' = phase
    /\ PropsChanged("other", NoSelection)
    /\ UNCHANGED <<components, selectedMotor>>
    /\ UNCHANGED <<simVars, designVars, activeTab, simulationData>>

(* the drops, the drags of fins to the stations 7 and 8, and the mass and  *)
(* the height field of the property editor typed empty or 0                *)
(* (parseFloat(...) || 0)                                                  *)
NextStab ==
  \/ setActiveTab(Tabs)
  \/ onMotorSelect(StabilityMotor)
  \/ handleDrop(ComponentDomain, MaxComponents)
  \/ handleComponentUpdate({7, 8},
                           {Update("mass", 0), Update("height", 0)})
  \/ handleComponentDelete
  \/ clearCanvas
  \/ setAnalysisPhase
  \/ useEffect

SpecStab == Init /\ [][NextStab]_vars

(* The same view on a smaller stock of parts: a nose cone, an engine and   *)
(* fins, each with mass; the drags of fins to the stations 3 and 4, and    *)
(* the editor's mass field typed empty.                                    *)
SmallDomain ==
  {Comp("nosecone", 0, 2, 3, 13, 15),
   Comp("engine", 7, 1, 2, 13, 0),
   Comp("fins", 3, 1, 1, 26, 2)}

NextStabSmall ==
  \/ setActiveTab(Tabs)
  \/ onMotorSelect(StabilityMotor)
  \/ handleDrop(SmallDomain, MaxComponents)
  \/ handleComponentUpdate({3, 4}, {Update("mass", 0)})
  \/ handleComponentDelete
  \/ clearCanvas
  \/ setAnalysisPhase
  \/ useEffect

SpecStabSmall == Init /\ [][NextStabSmall]_vars

----------------------------------------------------------------------------
(* Properties of PhysicsEngine.runFullSimulation, checked under Spec.      *)

(* C1 (as stated): every run ends with a last sample whose altitude is 0   *)
(* and whose speed is below 1 m/s.                                         *)
C1_EndsAtRest ==
  pc = "done" =>
    /\ results[Len(results)].altitude = 0
    /\ Abs(results[Len(results)].velocity) < 1000000

(* C2 (as stated): a run performs at most maxTime/timeStep steps and       *)
(* returns at most that many stepped samples plus the initial and one      *)
(* forced landing sample.                                                  *)
C2_StepsWithinQuotient ==
  pc # "idle" =>
    /\ steps * timeStep <= maxTime
    /\ Len(results) * timeStep <= maxTime + 2 * timeStep

(* C2 (amended): a run performs at most ceil(maxTime/timeStep) steps, or   *)
(* one more when timeStep divides maxTime and the accumulated time falls   *)
(* short of maxTime by rounding; it returns the initial sample, one sample *)
(* per step and at most one forced landing sample.                         *)
C2_StepsWithinCeiling ==
  pc # "idle" =>
    /\ steps <= (maxTime + timeStep - 1) \div timeStep
                  + (IF maxTime % timeStep = 0
                        /\ TimeRounding(timeStep, maxTime) < 0
                       THEN 1 ELSE 0)
    /\ Len(results) >= steps + 1
    /\ Len(results) <= steps + 2

(* a returned run, still in the air when the time limit cut it, that took  *)
(* more than maxTime/timeStep steps                                        *)
C2_Witness ==
  /\ pc = "done"
  /\ steps * timeStep > maxTime
  /\ currentState.altitude > 0
  /\ Len(results) = steps + 1

(* C3 (as stated): with a motor, the sampled mass is non-increasing over   *)
(* samples with time <= burnTime and constant over all samples with        *)
(* time >= burnTime.                                                       *)
C3_ConstantFromBurnTime ==
  (pc # "idle" /\ HasMotor(motorData)) =>
    \A i, j \in 1..Len(results) :
      i < j =>
        /\ NotAfter(results[j], motorData.burnTime) =>
             results[j].mass <= results[i].mass
        /\ ~Before(results[i], motorData.burnTime) =>
             results[j].mass = results[i].mass

(* C3 (amended): with a motor, the sampled mass is non-increasing over     *)
(* samples with time <= burnTime and constant over all samples with        *)
(* time > burnTime.                                                        *)
C3_ConstantAfterBurnTime ==
  (pc # "idle" /\ HasMotor(motorData)) =>
    \A i, j \in 1..Len(results) :
      i < j =>
        /\ NotAfter(results[j], motorData.burnTime) =>
             results[j].mass <= results[i].mass
        /\ After(results[i], motorData.burnTime) =>
             results[j].mass = results[i].mass

(* a returned run with a sample exactly at burnTime, a lighter sample      *)
(* after it, and the same mass from then on                                *)
C3_Witness ==
  /\ pc = "done"
  /\ HasMotor(motorData)
  /\ \E i \in 1..Len(results) :
       /\ results[i].time = motorData.burnTime
       /\ results[i].timeRounding = 0
       /\ i + 2 <= Len(results)
       /\ results[i + 1].mass < results[i].mass
       /\ results[i + 2].mass = results[i + 1].mass

(* C4 (as stated): for a physics record with totalMass = dryMass +         *)
(* propellantMass, no sample of a run with a motor has a mass below        *)
(* dryMass.                                                                *)
C4_MassAtLeastDry ==
  (/\ pc # "idle"
   /\ HasMotor(motorData)
   /\ rocketPhysics.totalMass =
        rocketPhysics.dryMass + rocketPhysics.propellantMass) =>
    \A i \in 1..Len(results) : results[i].mass >= rocketPhysics.dryMass

(* C5 (as stated): in the designer's launch of the scenario rocket on the  *)
(* C6-5 with the defaults, the altitude rises over [0, 1.6 s], its maximum *)
(* is reached after burnout, and the last sample is back at altitude 0 no  *)
(* later than 60 s.                                                        *)
C5_ScenarioTrajectory ==
  (/\ pc = "done"
   /\ rocketPhysics = toggleSimulationPhysics(ScenarioRocket, MotorC6)
   /\ motorData = MotorC6
   /\ maxTime = DefaultMaxTime
   /\ timeStep = DefaultTimeStep) =>
    /\ \A i, j \in 1..Len(results) :
         (i < j /\ NotAfter(results[j], MotorC6.burnTime)) =>
           results[i].altitude <= results[j].altitude
    /\ \E k \in 1..Len(results) :
         /\ After(results[k], MotorC6.burnTime)
         /\ results[k].altitude > 0
         /\ \A i \in 1..Len(results) :
              results[i].altitude <= results[k].altitude
    /\ results[Len(results)].altitude = 0
    /\ NotAfter(results[Len(results)], DefaultMaxTime)

(* C6 (as stated): in a run without a motor every sample has thrust 0 and  *)
(* an altitude of at most 0.                                               *)
C6_NoMotorStaysDown ==
  (pc # "idle" /\ ~HasMotor(motorData)) =>
    \A i \in 1..Len(results) :
      results[i].thrust = 0 /\ results[i].altitude <= 0

(* C7: the returned sequence is never empty and starts with time 0,        *)
(* altitude 0, velocity 0 and the total mass.                              *)
C7_StartsOnThePad ==
  pc # "idle" =>
    /\ Len(results) >= 1
    /\ results[1].time = 0
    /\ results[1].altitude = 0
    /\ results[1].velocity = 0
    /\ results[1].mass = rocketPhysics.totalMass

(* a returned run with a motor whose first sample is heavier than the dry  *)
(* rocket and whose later samples have left the pad state                  *)
C7_Witness ==
  /\ pc = "done"
  /\ HasMotor(motorData)
  /\ results[1].mass > rocketPhysics.dryMass
  /\ results[Len(results)].time > 0
  /\ results[Len(results)].mass < results[1].mass

----------------------------------------------------------------------------
(* Properties of the stability evaluator, checked under SpecStab (C8, C10)  *)
(* and SpecStabSmall (C9).  The metrics are read where the effect has run  *)
(* on the props of the last render (Evaluated).                            *)

(* C8 (as stated): an evaluation whose components, motor and phase equal   *)
(* those of the evaluation before it yields the same metrics in every      *)
(* field.                                                                  *)
C8_SameInputsSameMetrics ==
  (Evaluated /\ previous.op = "same") => metrics = previous.metrics

(* C9 (as stated): moving a fins component aft, everything else fixed,     *)
(* never decreases the static margin, whatever the fins' mass.             *)
C9_AftNeverDecreases ==
  (Evaluated /\ previous.op = "finsAft") =>
    Leq(previous.metrics.staticMargin, metrics.staticMargin)

(* C9 (amended): moving a fins component aft, everything else fixed, does  *)
(* not decrease the static margin when the fins have mass 0: the center of *)
(* gravity then stays where it is, and no step from the fins' position to  *)
(* the margin decreases when its operand grows.                            *)
C9_AftNeverDecreasesForMasslessFins ==
  LET fins == CHOOSE comp \in {components[j] : j \in DOMAIN components} :
                comp.id = previous.id
  IN  (/\ Evaluated
       /\ previous.op = "finsAft"
       /\ fins.mass = 0) =>
        Leq(previous.metrics.staticMargin, metrics.staticMargin)

(* fins without mass, moved aft behind a nose cone that has mass and a     *)
(* normal force of its own: both centers are inside the rocket and the     *)
(* margin grew                                                             *)
C9_Witness ==
  /\ Evaluated
  /\ previous.op = "finsAft"
  /\ \E i \in 1..Len(components) :
       components[i].id = previous.id /\ components[i].mass = 0
  /\ \E i \in 1..Len(components) :
       components[i].type = "nosecone" /\ components[i].mass > 0
  /\ Less(Whole(0), metrics.centerOfGravity)
  /\ Less(previous.metrics.staticMargin, metrics.staticMargin)

(* C10 (as stated): for a non-empty component list with total mass > 0    *)
(* the center of gravity lies between the smallest y and the largest       *)
(* y + height, both as PhysicsEngine.calculateCenterOfGravity computes it  *)
(* and as the stability metrics report it in each phase, with or without a *)
(* motor.                                                                  *)
C10_CenterOfGravityWithinRocket ==
  (Evaluated /\ components # <<>>) =>
    /\ SumMass(components) > 0 =>
         /\ Leq(Whole(MinY(components)),
                calculateCenterOfGravity(components))
         /\ Leq(calculateCenterOfGravity(components),
                Whole(MaxExtent(components)))
    /\ Less(Whole(0),
            StabTotalMass(components, selectedMotor, analysisPhase)) =>
         /\ metrics.valid
         /\ Leq(Whole(MinY(components)), metrics.centerOfGravity)
         /\ Leq(metrics.centerOfGravity, Whole(MaxExtent(components)))

----------------------------------------------------------------------------
(* Boundary cases of the stability evaluator, checked under SpecStabSmall   *)
(* (C11, C15) and SpecStab (C12, C13, C14).                                *)

(* C11: for a rocket that is a single engine component, with or without a  *)
(* selected motor, the metrics have finEffectiveness 0 and at least three  *)
(* pairwise distinct warnings.                                             *)
C11_EngineOnlyWarnings ==
  (Evaluated /\ Len(components) = 1 /\ components[1].type = "engine") =>
    /\ metrics.valid
    /\ metrics.finEffectiveness = Whole(0)
    /\ Cardinality({metrics.warnings[i] : i \in DOMAIN metrics.warnings})
         >= 3

(* an engine with mass alone, a motor selected: the margin is negative and *)
(* the warnings are those about the margin, the fins and the recovery      *)
C11_Witness ==
  /\ Evaluated
  /\ Len(components) = 1
  /\ components[1].type = "engine"
  /\ components[1].mass > 0
  /\ HasMotor(selectedMotor)
  /\ Less(metrics.staticMargin, Whole(0))
  /\ {metrics.warnings[i] : i \in DOMAIN metrics.warnings} =
       {"Static margin too low - rocket may be unstable",
        "No fins detected - rocket will be unstable",
        "No recovery system detected"}

(* C12 (as stated): the metrics of the component list equal, in            *)
(* staticMargin, centerOfGravity, centerOfPressure, finEffectiveness,      *)
(* overallRating, warnings and recommendations, those of the same          *)
(* components in any other order; so do the engine's center of gravity and *)
(* center of pressure.                                                     *)
C12_OrderDoesNotMatter ==
  LET n == Len(components)
      Orders == {p \in [1..n -> 1..n] :
                   \A i, j \in 1..n : p[i] = p[j] => i = j}
      Reordered(p) == [i \in 1..n |-> components[p[i]]]
      SameResults(m1, m2) ==
        /\ m1.staticMargin = m2.staticMargin
        /\ m1.centerOfGravity = m2.centerOfGravity
        /\ m1.centerOfPressure = m2.centerOfPressure
        /\ m1.finEffectiveness = m2.finEffectiveness
        /\ m1.overallRating = m2.overallRating
        /\ m1.warnings = m2.warnings
        /\ m1.recommendations = m2.recommendations
  IN  (Evaluated /\ components # <<>>) =>
        \A p \in Orders :
          /\ SameResults(metrics,
                         calculateStabilityMetrics(Reordered(p),
                                                   selectedMotor,
                                                   analysisPhase, Whole(0)))
          /\ calculateCenterOfGravity(Reordered(p)) =
               calculateCenterOfGravity(components)
          /\ calculateCenterOfPressure(Reordered(p)) =
               calculateCenterOfPressure(components)

(* C13 (as stated): every number the evaluator reports is a defined finite *)
(* value, also for fins of height 0, a rocket of length 0, no aerodynamic  *)
(* weight and no mass; so is the engine's stability margin for the         *)
(* component list.                                                         *)
C13_NoUndefinedResult ==
  LET IsFinite(x) == x.cls = "num"
  IN  (Evaluated /\ components # <<>>) =>
      /\ metrics.valid
      /\ IsFinite(metrics.centerOfGravity)
      /\ IsFinite(metrics.centerOfPressure)
      /\ IsFinite(metrics.staticMargin)
      /\ IsFinite(metrics.finEffectiveness)
      /\ IsFinite(metrics.dynamicStability)
      /\ IsFinite(metrics.overallRating)
      /\ IsFinite(calculateStabilityMargin(
                    calculateCenterOfGravity(components),
                    calculateCenterOfPressure(components),
                    RocketDiameter(components)))

(* C14 (as stated): when no component has a nonzero aerodynamic weight,    *)
(* the center of pressure is the geometric midpoint of the rocket, in the  *)
(* metrics and in PhysicsEngine.calculateCenterOfPressure.                 *)
C14_MidpointWithoutWeight ==
  LET GeometricMidpoint ==
        Over(Whole(MinY(components) + MaxExtent(components)), Whole(2))
  IN  (Evaluated /\ components # <<>>) =>
        /\ (\A i \in 1..Len(components) :
              IsZero(NormalForceDerivative(components[i]))) =>
             metrics.centerOfPressure = GeometricMidpoint
        /\ (\A i \in 1..Len(components) : IsZero(area(components[i]))) =>
             calculateCenterOfPressure(components) = GeometricMidpoint

(* C15: for an empty component list the evaluation leaves no metrics       *)
(* record, hence no warnings or recommendations, and the card shown is     *)
(* 'No Components'; and when the list has become empty after having had    *)
(* components, the next thing to happen to the designer is the effect of   *)
(* that render, which clears the metrics that were on display.             *)
C15_EmptyListNoMetrics ==
  /\ []((Evaluated /\ components = <<>>) =>
         /\ metrics = NoMetrics
         /\ Heading(metrics) = "No Components")
  /\ [][(effectPending /\ components = <<>> /\ stabVars' # stabVars) =>
         /\ ~effectPending'
         /\ metrics' = NoMetrics]_vars

(* the last component was deleted from a design whose analysis had been    *)
(* on display (its phase selector was used): the metrics are gone          *)
C15_Witness ==
  /\ Evaluated
  /\ previous.op = "delete"
  /\ components = <<>>
  /\ analysisPhase # "powered"
  /\ ~metrics.valid
  /\ Heading(metrics) = "No Components"

----------------------------------------------------------------------------
(* Thrust, drag and phases over a run, checked under Spec.                 *)

(* C16 (as stated): with a catalog motor, the thrust the step computes for *)
(* a state whose time is burnTime or later is 0, and every sample with a   *)
(* time after burnTime records thrust 0.                                   *)
C16_NoThrustFromBurnTime ==
  (pc # "idle" /\ HasMotor(motorData)) =>
    \A i \in 1..Len(results) :
      /\ ~Before(results[i], motorData.burnTime) =>
           CurrentThrust(motorData, results[i], timeStep) = 0
      /\ After(results[i], motorData.burnTime) => results[i].thrust = 0

(* the state the last step produced: the sample before the forced landing  *)
(* sample when there is one, the last sample otherwise                     *)
StoppedAt == results[steps + 1]

(* C17 (as stated): a run that ends before maxTime had a sample above the  *)
(* ground, and stopped stepping at altitude 0 with a speed below 1 m/s.    *)
C17_EarlyStopIsALanding ==
  (pc = "done" /\ Before(results[Len(results)], maxTime)) =>
    /\ \E i \in 1..Len(results) : results[i].altitude > 0
    /\ StoppedAt.altitude = 0
    /\ Abs(StoppedAt.velocity) < 1000000

(* the drag acceleration of the step that produced sample i + 1 from       *)
(* sample i, recovered from what the sample records: its total             *)
(* acceleration less the thrust acceleration plus gravity                  *)
DragAccelerationOfStep(i) ==
  results[i + 1].acceleration
    - Acceleration(results[i + 1].thrust, results[i].mass)
    + gravityAtAltitude(results[i].altitude)

(* C18: in every step the drag acceleration is <= 0 for a velocity > 0,    *)
(* >= 0 for a velocity < 0 and 0 for velocity 0, and the recorded drag is  *)
(* >= 0.                                                                   *)
C18_DragOpposesVelocity ==
  pc # "idle" =>
    \A i \in 1..steps :
      /\ results[i + 1].drag >= 0
      /\ results[i].velocity > 0 => DragAccelerationOfStep(i) <= 0
      /\ results[i].velocity < 0 => DragAccelerationOfStep(i) >= 0
      /\ results[i].velocity = 0 => DragAccelerationOfStep(i) = 0

(* a returned run with a step that was slowed on the way up and a step     *)
(* that was slowed on the way down                                         *)
C18_Witness ==
  /\ pc = "done"
  /\ \E i \in 1..steps :
       /\ results[i].velocity > 0
       /\ results[i + 1].drag > 0
       /\ DragAccelerationOfStep(i) < 0
  /\ \E i \in 1..steps :
       /\ results[i].velocity < 0
       /\ results[i + 1].drag > 0
       /\ DragAccelerationOfStep(i) > 0

(* the impulse applied over the steps that produced samples 2..n: the sum  *)
(* of thrust * timeStep, in uN s                                           *)
RECURSIVE ImpulseApplied(_)
ImpulseApplied(n) ==
  IF n <= 1 THEN 0
  ELSE MulDiv(results[n].thrust, timeStep, 1000) + ImpulseApplied(n - 1)

(* C19 (as stated): over a full run with a catalog motor and the default   *)
(* timeStep, the impulse applied approximates the motor's totalImpulse     *)
(* (taken here as: within a factor of two of it).                          *)
C19_ImpulseApproximatesTotal ==
  (/\ pc = "done"
   /\ HasMotor(motorData)
   /\ timeStep = DefaultTimeStep
   /\ maxTime = DefaultMaxTime) =>
    /\ 2 * ImpulseApplied(steps + 1) >= motorData.totalImpulse
    /\ ImpulseApplied(steps + 1) <= 2 * motorData.totalImpulse

(* the phase a sample shows: 1 PoweredAscent, 2 Coast, 3 Descent, 4 Landed *)
PhaseOfSample(sample) ==
  IF sample.thrust > 0 THEN 1
  ELSE IF sample.velocity > 0 THEN 2
  ELSE IF sample.altitude > 0 THEN 3
  ELSE 4

(* C20 (as stated): over the samples of a run with a motor the phase       *)
(* derived from thrust and velocity never moves back to an earlier phase,  *)
(* and a sample is in PoweredAscent exactly when 0 < time <= burnTime.     *)
C20_PhasesOnlyForward ==
  (pc # "idle" /\ HasMotor(motorData)) =>
    /\ \A i, j \in 1..Len(results) :
         i < j => PhaseOfSample(results[i]) <= PhaseOfSample(results[j])
    /\ \A i \in 1..Len(results) :
         PhaseOfSample(results[i]) = 1 <=>
           (results[i].time > 0 /\ NotAfter(results[i], motorData.burnTime))

----------------------------------------------------------------------------
(* The advisory view: the same evaluator on designs large enough to earn   *)
(* the acknowledgment, which takes three fins components and a parachute.  *)
(* The parts are weightless but for the parachute, so that the static      *)
(* margin is a whole number of calibers when all fins sit at one station:  *)
(* cg = 1 (the parachute's midpoint), cp = y + 1 for fins at y.  The parts *)
(* are dropped within one millisecond of the clock, so the components of a *)
(* type share their id, and a drag by the id reaches all of them; the      *)
(* fins are dragged to the stations 1 and 3.                               *)

MaxAdvisoryComponents == 4

AdvisoryDomain ==
  {Comp("parachute", 0, 1, 2, 13, 130),
   Comp("fins", 1, 1, 3, 0, 2),
   Comp("engine", 4, 1, 2, 0, 0)}

NextAdvisory ==
  \/ setActiveTab(Tabs)
  \/ handleDrop(AdvisoryDomain, MaxAdvisoryComponents)
  \/ handleComponentUpdate({1, 3}, {})
  \/ handleComponentDelete
  \/ useEffect

SpecAdvisory == Init /\ [][NextAdvisory]_vars

(* the acknowledgment is among the recommendations *)
Acknowledged(m) ==
  \E i \in DOMAIN m.recommendations :
    m.recommendations[i] = "Excellent stability configuration!"

(* C21: the acknowledgment 'Excellent stability configuration!' is among   *)
(* the recommendations exactly when the list of warnings is empty; it      *)
(* never comes together with a warning.                                    *)
C21_AcknowledgmentIffNoWarnings ==
  (Evaluated /\ metrics.valid) =>
    (Acknowledged(metrics) <=> metrics.warnings = <<>>)

(* C22: the status, the margin warnings, the acknowledgment and the        *)
(* overall rating all read the static margin against the same band from 1  *)
(* to 3 with both ends included: inside it the status is Stable, there is  *)
(* no margin warning and the rating is the reward formula, at exactly 1    *)
(* and exactly 3 too; outside it the rating is the penalty formula.        *)
C22_OneInclusiveBand ==
  (Evaluated /\ metrics.valid) =>
    LET (* the reward of a margin inside the band *)
        RewardRating(staticMargin, finEffectiveness, hasRecovery) ==
          MathMin(Whole(100),
            Plus(Plus(Times(staticMargin, Whole(30)),
                      Times(finEffectiveness, Over(Whole(1), Whole(2)))),
                 Whole(IF hasRecovery THEN 20 ELSE 0)))
        (* the penalty of the distance from 2 *)
        PenaltyRating(staticMargin) ==
          MathMax(Whole(0),
            Minus(Whole(50),
                  Times(MathAbs(Minus(staticMargin, Whole(2))), Whole(25))))
        MarginWarnings ==
          {"Static margin too low - rocket may be unstable",
           "Static margin too high - rocket may be overstable"}
        (* the band from 1 to 3 calibers, both ends included *)
        inBand == /\ Leq(Whole(1), metrics.staticMargin)
                  /\ Leq(metrics.staticMargin, Whole(3))
    IN  /\ (getStaticMarginStatus(metrics).text = "Stable") <=> inBand
        /\ (\A i \in DOMAIN metrics.warnings :
              metrics.warnings[i] \notin MarginWarnings) <=> inBand
        /\ Acknowledged(metrics) => inBand
        /\ metrics.overallRating =
             IF inBand
               THEN RewardRating(metrics.staticMargin,
                                 metrics.finEffectiveness,
                                 HasRecovery(components))
               ELSE PenaltyRating(metrics.staticMargin)

(* The number of fins of a fins component is the finCount state of the     *)
(* property editor (DetailedComponentProperties), set by a slider from 3   *)
(* to 8.  RocketComponent has no field for it: the count reaches the       *)
(* design only through the values the editor computes from it:            *)
(* calculateDragCoefficient calls updateProperty('dragCoefficient', cd),   *)
(* here in hundredths.                                                     *)
calculateDragCoefficient(localComponent, finCount) ==
  [localComponent EXCEPT !.dragCoefficient =
     CASE localComponent.type = "nosecone" -> 15
       [] localComponent.type = "bodytube" -> 45
       [] localComponent.type = "fins" -> 2 * finCount
       [] localComponent.type = "parachute" -> 130
       [] OTHER -> 45]

(* C23: a fins component weighs in the center of pressure in proportion    *)
(* to its own fin count: the weight of a set of k fins is k/4 of the       *)
(* weight of the same set with 4 fins, so a 3-fin set weighs 3/4 of it.    *)
C23_WeightFollowsFinCount ==
  \A i \in 1..Len(components) :
    (/\ components[i].type = "fins"
     /\ ~IsNaN(NormalForceDerivative(components[i]))) =>
      \A k \in 3..8 :
        Times(Whole(4),
              NormalForceDerivative(
                calculateDragCoefficient(components[i], k)))
          = Times(Whole(k),
                  NormalForceDerivative(
                    calculateDragCoefficient(components[i], 4)))

(* C24: the center of pressure PhysicsEngine.calculateCenterOfPressure     *)
(* computes for a component list (the value toggleSimulation puts in       *)
(* RocketPhysics) is the centerOfPressure of calculateStabilityMetrics for *)
(* the same list, and likewise the two centers of gravity when no motor is *)
(* selected.                                                               *)
C24_EngineAgreesWithAnalysis ==
  (Evaluated /\ metrics.valid) =>
    /\ metrics.centerOfPressure = calculateCenterOfPressure(components)
    /\ selectedMotor = NoMotor =>
         metrics.centerOfGravity = calculateCenterOfGravity(components)

(* C28: there is one recommendation for every warning, and one more when   *)
(* the acknowledgment is present; the warnings about a low and a high      *)
(* static margin never come together, nor do 'no fins' and 'insufficient   *)
(* fin count', so there are at most four warnings.                         *)
C28_OneRecommendationPerWarning ==
  LET (* the text is among the warnings of m *)
      Warned(m, text) == \E i \in DOMAIN m.warnings : m.warnings[i] = text
  IN  (Evaluated /\ metrics.valid) =>
        /\ Len(metrics.recommendations) =
             Len(metrics.warnings) + (IF Acknowledged(metrics) THEN 1 ELSE 0)
        /\ ~(/\ Warned(metrics,
                       "Static margin too low - rocket may be unstable")
             /\ Warned(metrics,
                       "Static margin too high - rocket may be overstable"))
        /\ ~(/\ Warned(metrics, "No fins detected - rocket will be unstable")
             /\ Warned(metrics,
                       "Insufficient fin count for optimal stability"))
        /\ Len(metrics.warnings) <= 4

(* an acknowledged design that still has a warning: two recommendations    *)
(* for one warning                                                         *)
C28_Witness ==
  /\ Evaluated
  /\ metrics.valid
  /\ Acknowledged(metrics)
  /\ Len(metrics.warnings) = 1
  /\ Len(metrics.recommendations) = 2

----------------------------------------------------------------------------
(* Further properties of PhysicsEngine.runFullSimulation, checked under    *)
(* Spec.                                                                   *)

(* the rocket has not left the pad up to sample i *)
OnThePad(i) == \A j \in 1..i : results[j].altitude = 0

(* C26: a rocket resting on the pad does not acquire downward velocity:    *)
(* every sample with altitude 0 of a rocket that has not yet left the pad  *)
(* has a velocity of at least 0.                                           *)
C26_NoDownwardVelocityOnThePad ==
  \A i \in 1..Len(results) : OnThePad(i) => results[i].velocity >= 0

(* sample i is the one its step returned: nothing has changed it since *)
AsReturned(i) ==
  results[i] = simulateFlightStep(results[i - 1], rocketPhysics, motorData,
                                  DefaultLaunchConditions, timeStep)

(* C27: every sample of a run, the forced final landing sample included,   *)
(* has verticalVelocity = velocity, position.y = altitude, lateralVelocity *)
(* 0 and an altitude of at least 0; and the samples appended before the    *)
(* forced one are as their steps returned them.                            *)
C27_SamplesConsistent ==
  \A i \in 1..Len(results) :
    /\ results[i].verticalVelocity = results[i].velocity
    /\ results[i].positionY = results[i].altitude
    /\ results[i].lateralVelocity = 0
    /\ results[i].altitude >= 0
    /\ i \in 2..(steps + 1) => AsReturned(i)

----------------------------------------------------------------------------
(* The design session: the library's parts on the canvas, the selection,   *)
(* the property editor, the canvas handlers that call RocketDesigner's,    *)
(* and the launch.  Lengths are in px, masses in 0.5 g.  The part dragged   *)
(* from the library is the fin set.                                        *)

MaxCanvasComponents == 2

(* componentTemplates: the entry of the library for the type, with its     *)
(* width, height, mass and dragCoefficient; a drop is made at the upper    *)
(* edge, y: Math.max(0, ...) = 0                                           *)
componentTemplates(type) ==
  CASE type = "nosecone" -> Comp(type, 0, 40, 60, 100, 15)
    [] type = "bodytube" -> Comp(type, 0, 40, 100, 300, 45)
    [] type = "fins" -> Comp(type, 0, 60, 40, 160, 2)
    [] type = "engine" -> Comp(type, 0, 35, 80, 500, 0)
    [] type = "transition" -> Comp(type, 0, 40, 30, 60, 25)
    [] type = "parachute" -> Comp(type, 0, 30, 25, 80, 130)

(* the value typed into the mass field of the property editor: 0.5 *)
DesignInputs == {Update("mass", 1000)}

handleComponentMouseDown ==
  \E i \in 1..Len(components) :
    /\ ~effectPending
    /\ ~isSimulating
    /\ selectedComponent' = components[i].id
    /\ draggedComponent' = components[i].id
    /\ UNCHANGED <<showComponentProps, isSimulating, now>>
    /\ UNCHANGED <<simVars, stabVars, panelVars>>

(* onComponentUpdate(draggedComponent, { x, y }) for one of the positions *)
handleMouseMove(positions) ==
  \E y \in positions :
    /\ ~effectPending
    /\ draggedComponent # NoSelection
    /\ components' = WithUpdates(components, draggedComponent,
                                 Update("y", y))
    /\ PropsChanged(UpdateKind(components, draggedComponent,
                               Update("y", y)),
                    draggedComponent)
    /\ UNCHANGED <<selectedMotor, analysisPhase>>
    /\ UNCHANGED <<simVars, designVars, activeTab, simulationData>>

handleMouseUp ==
  /\ ~effectPending
  /\ draggedComponent' = NoSelection
  /\ UNCHANGED <<selectedComponent, showComponentProps, isSimulating, now>>
  /\ UNCHANGED <<simVars, stabVars, panelVars>>

(* a click on the canvas itself: onComponentSelect(null) *)
handleCanvasClick ==
  /\ ~effectPending
  /\ selectedComponent' = NoSelection
  /\ UNCHANGED <<draggedComponent, showComponentProps, isSimulating, now>>
  /\ UNCHANGED <<simVars, stabVars, panelVars>>

(* the Delete button, shown while a component is selected and no           *)
(* simulation runs: onComponentDelete(selectedComponent), which is         *)
(* handleComponentDelete                                                   *)
onComponentDelete ==
  /\ ~effectPending
  /\ selectedComponent # NoSelection
  /\ ~isSimulating
  /\ components' = WithoutId(components, selectedComponent)
  /\ selectedComponent' =
       SelectionAfterDelete(selectedComponent, selectedComponent)
  /\ PropsChanged("delete", NoSelection)
  /\ UNCHANGED <<selectedMotor, analysisPhase>>
  /\ UNCHANGED <<draggedComponent, showComponentProps, isSimulating, now>>
  /\ UNCHANGED <<simVars, activeTab, simulationData>>

(* the Edit button, shown in the "design" tab while a component is         *)
(* selected: onClick={() => setShowComponentProps(true)}                   *)
setShowComponentProps ==
  /\ ~effectPending
  /\ activeTab = "design"
  /\ selectedComponent # NoSelection
  /\ showComponentProps' = TRUE
  /\ UNCHANGED <<selectedComponent, draggedComponent, isSimulating, now>>
  /\ UNCHANGED <<simVars, stabVars, panelVars>>

(* DetailedComponentProperties is rendered: {showComponentProps &&         *)
(* selectedComponent && ...}, for the component components.find(c =>       *)
(* c.id === selectedComponent), which its localComponent follows           *)
Editing ==
  /\ showComponentProps
  /\ selectedComponent # NoSelection
  /\ \E i \in 1..Len(components) : components[i].id = selectedComponent

(* onClose={() => setShowComponentProps(false)} *)
onClose ==
  /\ ~effectPending
  /\ Editing
  /\ showComponentProps' = FALSE
  /\ UNCHANGED <<selectedComponent, draggedComponent, isSimulating, now>>
  /\ UNCHANGED <<simVars, stabVars, panelVars>>

(* updateProperty(property, value) of the editor, which its fields call    *)
(* with the value typed and its buttons with the value calculated:         *)
(* onComponentUpdate(localComponent.id, { [property]: value }), for one of *)
(* inputs                                                                  *)
updateProperty(inputs) ==
  \E updates \in inputs :
    /\ ~effectPending
    /\ Editing
    /\ components' = WithUpdates(components, selectedComponent, updates)
    /\ PropsChanged(UpdateKind(components, selectedComponent, updates),
                    selectedComponent)
    /\ UNCHANGED <<selectedMotor, analysisPhase>>
    /\ UNCHANGED <<simVars, designVars, activeTab, simulationData>>

(* the components as the engine reads them: mass in ug *)
EngineComponents(comps) ==
  [j \in 1..Len(comps) |-> [comps[j] EXCEPT !.mass = 500000 * @]]

(* the entry of the motor catalog that was selected *)
CatalogMotor(motor) ==
  CHOOSE entry \in Motors : entry.designation = motor.designation

(* the flights of the designs of a session, by the motor and the          *)
(* rocketPhysics of the launch: designs of fins and engines of the         *)
(* library, as dropped or with fields of the editor typed over             *)
FlightTable ==
  LET Edited(parts) ==
        parts \cup {[part EXCEPT ![updates.property] = updates.value]
                    : part \in parts, updates \in DesignInputs}
      library == {componentTemplates("fins"), componentTemplates("engine")}
  IN  [launch \in
         {[motor |-> motor,
           rp |-> toggleSimulationPhysics(EngineComponents(design), motor)]
          : motor \in {MotorA8, MotorC6},
            design \in UNION {[1..n -> Edited(Edited(library))]
                              : n \in 1..MaxCanvasComponents}}
         |-> FlightData(launch.rp, launch.motor, DefaultMaxTime,
                        DefaultTimeStep)]

(* the Launch / Stop button, disabled={!selectedMotor ||                    *)
(* components.length === 0}: a start builds the rocketPhysics of the       *)
(* components and the motor, runs the flight, stores its results with      *)
(* setFlightData and shows the "analyze" tab;                              *)
(* setIsSimulating(!isSimulating) in every case                            *)
toggleSimulation ==
  \E tab \in {IF ~isSimulating THEN "analyze" ELSE activeTab} :
    /\ ~effectPending
    /\ HasMotor(selectedMotor)
    /\ components # <<>>
    /\ IF isSimulating
         THEN UNCHANGED simVars
         ELSE \E motor \in {CatalogMotor(selectedMotor)} :
              \E rp \in {toggleSimulationPhysics(
                           EngineComponents(components), motor)} :
              \E flight \in
                   {IF [motor |-> motor, rp |-> rp] \in DOMAIN FlightTable
                      THEN FlightTable[[motor |-> motor, rp |-> rp]]
                      ELSE FlightData(rp, motor, DefaultMaxTime,
                                      DefaultTimeStep)} :
                /\ pc' = "done"
                /\ rocketPhysics' = rp
                /\ motorData' = motor
                /\ maxTime' = DefaultMaxTime
                /\ timeStep' = DefaultTimeStep
                /\ currentState' = flight.results[Len(flight.results)]
                /\ results' = flight.results
                /\ steps' = flight.steps
    /\ isSimulating' = ~isSimulating
    /\ activeTab' = tab
    /\ AfterTabChange(tab, ~isSimulating)
    /\ StabilityAfterTabChange(tab)
    /\ UNCHANGED <<components, selectedMotor>>
    /\ UNCHANGED <<selectedComponent, draggedComponent, showComponentProps,
                   now>>

NextDesign ==
  \/ DateNow
  \/ setActiveTab(Tabs)
  \/ onMotorSelect(StabilityMotor)
  \/ useEffect
  \/ handleDrop({componentTemplates("fins")}, MaxCanvasComponents)
  \/ handleComponentMouseDown
  \/ handleMouseMove({0, 5})
  \/ handleMouseUp
  \/ handleCanvasClick
  \/ onComponentDelete
  \/ clearCanvas
  \/ setShowComponentProps
  \/ onClose
  \/ updateProperty(DesignInputs)
  \/ toggleSimulation

SpecDesign == Init /\ [][NextDesign]_vars

(* C25: after any sequence of drops, edits and deletions the components    *)
(* have pairwise distinct ids, two components of one type placed within    *)
(* the same clock millisecond included, so that an edit or a deletion by   *)
(* the id of a component affects exactly that one component.               *)
C25_DistinctIds ==
  LET RemoveAt(i) == SubSeq(components, 1, i - 1)
                       \o SubSeq(components, i + 1, Len(components))
  IN  \A i \in 1..Len(components) :
        /\ \A j \in 1..Len(components) :
             i # j => components[i].id # components[j].id
        /\ WithUpdates(components, components[i].id,
                       Update("y", 1 - components[i].y))
             = [components EXCEPT ![i].y = 1 - components[i].y]
        /\ WithoutId(components, components[i].id) = RemoveAt(i)

(* C29: selectedComponent is null or the id of a component in the list;    *)
(* deleting the selected component clears the selection; deleting another  *)
(* component leaves the selection and all other components unchanged.      *)
C29_SelectionFollowsComponents ==
  /\ \/ selectedComponent = NoSelection
     \/ \E i \in 1..Len(components) :
          components[i].id = selectedComponent
  /\ \A i \in 1..Len(components) :
       LET id == components[i].id
           others == SubSeq(components, 1, i - 1)
                       \o SubSeq(components, i + 1, Len(components))
       IN  IF id = selectedComponent
             THEN SelectionAfterDelete(selectedComponent, id) = NoSelection
             ELSE /\ SelectionAfterDelete(selectedComponent, id)
                       = selectedComponent
                  /\ WithoutId(components, id) = others

----------------------------------------------------------------------------
(* The live telemetry of SimulationPanel.  The panel is mounted while the  *)
(* "simulate" tab is shown; a new mount starts from the initial            *)
(* simulationData.  Its interval calls the tick every 100 ms while         *)
(* isSimulating.  The telemetry is computed in the program's doubles:      *)
(* time in s, altitude in m, velocity in m/s, acceleration in m/s^2, mass  *)
(* in kg, thrust and drag in N.                                            *)

MaxTicks == 10

(* const dt = 0.1 *)
TickSeconds == Over(Whole(1), Whole(10))

(* mutant: the velocity of a tick without its floor at 0 *)
NewVelocityUnclamped(velocity, acceleration) ==
  Plus(velocity, Times(acceleration, TickSeconds))

(* Math.max(0, prev.velocity + acceleration * dt) *)
NewVelocity(velocity, acceleration) ==
  MathMax(Whole(0), Plus(velocity, Times(acceleration, TickSeconds)))

(* calculateStability for the value Math.random() returns *)
calculateStability(comps, random) ==
  IF Len(OfType(comps, "fins")) > 0 /\ Len(OfType(comps, "engine")) > 0
    THEN Plus(Whole(85), Times(random, Whole(10)))
    ELSE Whole(50)

(* the updater the interval hands to setSimulationData.  The fields of the *)
(* motor are kept in thousandths (500 is 0.5); value || fallback takes the *)
(* fallback for 0 and for NaN.                                             *)
NextSimulationData(prev, comps, motor, random) ==
  LET OrElse(value, fallback) ==
        IF IsNaN(value) \/ IsZero(value) THEN fallback ELSE value
      RECURSIVE Reduce(_, _)
      Reduce(sum, rest) ==
        IF rest = <<>> THEN sum
        ELSE Reduce(Plus(sum, Kilograms(Head(rest).mass)), Tail(rest))
      (* const newTime = prev.time + dt *)
      newTime == Plus(prev.time, TickSeconds)
      (* components.reduce((sum, comp) => sum + comp.mass, 0) || 1 *)
      totalMass == OrElse(Reduce(Whole(0), comps), Whole(1))
      (* selectedMotor?.burnTime || 3 *)
      burnTime ==
        IF HasMotor(motor)
          THEN OrElse(Over(Whole(motor.burnTime), Whole(1000)), Whole(3))
          ELSE Whole(3)
      (* engines.length > 0 && newTime < burnTime                          *)
      (*   ? (selectedMotor?.averageThrust || 50) : 0                      *)
      thrust ==
        IF Len(OfType(comps, "engine")) > 0 /\ Less(newTime, burnTime)
          THEN (IF HasMotor(motor)
                  THEN OrElse(Over(Whole(motor.averageThrust), Whole(1000)),
                              Whole(50))
                  ELSE Whole(50))
          ELSE Whole(0)
      (* -0.5 * prev.velocity * Math.abs(prev.velocity) * 0.01 *)
      drag ==
        Times(Times(Times(Over(Whole(-1), Whole(2)), prev.velocity),
                    MathAbs(prev.velocity)),
              Over(Whole(1), Whole(100)))
      (* (thrust + drag + gravity * totalMass) / totalMass, gravity -9.81 *)
      acceleration ==
        Over(Plus(Plus(thrust, drag),
                  Times(Over(Whole(-981), Whole(100)), totalMass)),
             totalMass)
      newVelocity == NewVelocity(prev.velocity, acceleration)
      (* Math.max(0, prev.altitude + newVelocity * dt) *)
      newAltitude ==
        MathMax(Whole(0), Plus(prev.altitude, Times(newVelocity, TickSeconds)))
      maxAlt == MathMax(prev.maxAltitude, newAltitude)
  IN  IF Leq(newAltitude, Whole(0)) /\ Less(Whole(0), prev.altitude)
        THEN [prev EXCEPT !.velocity = Whole(0), !.acceleration = Whole(0),
                          !.altitude = Whole(0), !.maxAltitude = maxAlt]
        ELSE [time |-> newTime,
              altitude |-> newAltitude,
              velocity |-> newVelocity,
              acceleration |-> acceleration,
              maxAltitude |-> maxAlt,
              burnTime |-> IF Less(Whole(0), thrust) THEN newTime
                           ELSE prev.burnTime,
              stability |-> calculateStability(comps, random)]

(* a tick of the interval, which runs while the panel is mounted and       *)
(* isSimulating; the session is followed for MaxTicks ticks, whose times   *)
(* are the sums of 0.1 below MaxTicks / 10 - 0.05                          *)
tick ==
  \E random \in RandomDraws :
    /\ activeTab = "simulate"
    /\ isSimulating
    /\ Less(simulationData.time, Over(Whole(2 * MaxTicks - 1), Whole(20)))
    /\ simulationData' =
         NextSimulationData(simulationData, components, selectedMotor,
                            random)
    /\ UNCHANGED <<activeTab, intervals>>
    /\ UNCHANGED <<simVars, stabVars, designVars>>

(* the Reset button, shown in the panel with a motor selected while        *)
(* !isSimulating && simulationData.maxAltitude > 0                         *)
resetSimulation ==
  /\ activeTab = "simulate"
  /\ HasMotor(selectedMotor)
  /\ ~isSimulating
  /\ Less(Whole(0), simulationData.maxAltitude)
  /\ simulationData' = InitialSimulationData
  /\ UNCHANGED <<activeTab, intervals>>
  /\ UNCHANGED <<simVars, stabVars, designVars>>

(* the fields of the catalog entry A8-3 that SimulationPanel reads:        *)
(* burnTime 0.5 and averageThrust 5, in thousandths                        *)
PanelMotor ==
  [designation |-> "A8-3", burnTime |-> 500, averageThrust |-> 5000]

MaxPanelComponents == 1

(* the session of the panel: an engine of the library and the A8-3, drags  *)
(* that end at the upper edge, the mass field of the property editor typed *)
(* 0.5; the "stability" tab is not visited                                 *)
NextTelemetry ==
  \/ setActiveTab(Tabs \ {"stability"})
  \/ onMotorSelect(PanelMotor)
  \/ handleDrop({componentTemplates("engine")}, MaxPanelComponents)
  \/ handleComponentMouseDown
  \/ handleMouseMove({0})
  \/ handleMouseUp
  \/ onComponentDelete
  \/ clearCanvas
  \/ setShowComponentProps
  \/ updateProperty({Update("mass", 1000)})
  \/ toggleSimulation
  \/ tick
  \/ resetSimulation

SpecTelemetry == Init /\ [][NextTelemetry]_vars

(* C30: in the live telemetry, velocity and altitude are never negative,   *)
(* the altitude never decreases from one tick to the next, maxAltitude     *)
(* always equals the current altitude and the landing branch is never      *)
(* taken; the telemetry changes only by a tick while isSimulating, and     *)
(* otherwise keeps its values until it is reset to the initial ones.       *)
C30_TelemetryNeverDescends ==
  /\ [](/\ Leq(Whole(0), simulationData.velocity)
        /\ Leq(Whole(0), simulationData.altitude)
        /\ simulationData.maxAltitude = simulationData.altitude
        /\ NextSimulationData(simulationData, components, selectedMotor,
                              Whole(0)).time # simulationData.time)
  /\ [][simulationData' # simulationData =>
          \/ simulationData' = InitialSimulationData
          \/ /\ isSimulating
             /\ simulationData'.time = Plus(simulationData.time, TickSeconds)
             /\ Leq(simulationData.altitude, simulationData'.altitude)]_vars

(* a flight that was stopped above the pad after the burn had ended and    *)
(* the velocity had been held at 0: the values are still on display        *)
C30_Witness ==
  /\ activeTab = "simulate"
  /\ ~isSimulating
  /\ Less(Whole(0), simulationData.altitude)
  /\ IsZero(simulationData.velocity)
  /\ Less(simulationData.acceleration, Whole(0))
  /\ Less(simulationData.burnTime, simulationData.time)

====
